---- MODULE Spec2Model ----
(***************************************************************************)
(* CanvasCollab: the server-side event store (eventStore.js), the          *)
(* WebSocket room manager (websocketManager.js) and the parts of the       *)
(* client sync layer the properties below talk about.                      *)
(*                                                                         *)
(* JavaScript objects are modelled as TLA+ functions whose domain is the   *)
(* set of keys the object has; "k in o" is  k \in DOMAIN o.                *)
(* The database runs at READ COMMITTED (the pg default, the pool sets no   *)
(* other level): a statement sees what was committed when it starts plus   *)
(* the transaction's own writes; a transaction's writes become visible to  *)
(* others at COMMIT.                                                       *)
(***************************************************************************)
EXTENDS Integers, Sequences, FiniteSets, TLC

VARIABLES
    canvases,   \* table canvases: the set of canvas ids that have a row
    events,     \* table events: committed rows, in commit order
    shapes,     \* table shapes: shape id -> committed row (id is the primary key)
    now,        \* the database clock (ms)
    nextId,     \* uuidv4(): the next fresh event id
    calls,      \* invocations of the store's write API, each with its position
    open,       \* the sockets whose readyState is OPEN
    connections,\* WebSocketManager.connections: the sockets that have an entry
    connInfo,   \* the connInfo object of each socket
    canvasRooms,\* WebSocketManager.canvasRooms: canvas id -> set of sockets
    inbox,      \* per socket, the messages the server has sent it, in order
    handlers,   \* the invocations of the 'message' handler, each with its position
    audience,   \* history: event id -> the sockets that were in the event's room when
                \* it committed and have not left a room since
    conflictResolver, \* the client's ConflictResolver: userId, vectorClock,
                \* propertyTimestamps
    localShapes,\* the client store's shapes.value: shape id -> shape
    handled,    \* the remote events the client has applied, each with its resolution
    args,       \* the arguments of a call of a pure function of conflictResolution.js
    result,     \* what the call returned
    pendingEvents, \* the client's IndexedDB store pendingEvents, in key order
    syncService,\* the client's SyncService (and whether its WebSocket is ready)
    tasks       \* the client's calls of queueEvent and syncPendingEvents, each with
                \* its position

storeVars == <<canvases, events, shapes, now, nextId, calls>>
wsVars == <<open, connections, connInfo, canvasRooms, inbox, handlers, audience>>
syncVars == <<pendingEvents, syncService, tasks>>
clientVars == <<conflictResolver, localShapes, handled, args, result,
                pendingEvents, syncService, tasks>>
vars == <<canvases, events, shapes, now, nextId, calls,
          open, connections, connInfo, canvasRooms, inbox, handlers, audience,
          conflictResolver, localShapes, handled, args, result,
          pendingEvents, syncService, tasks>>

-----------------------------------------------------------------------------
(* Bounds of the model *)

MaxCalls == 3
MaxTicks == 1
MaxMsgs == 3
MaxClock == 2
MaxRemote == 2
MaxOps == 2
MaxBeats == 3

-----------------------------------------------------------------------------
(* JavaScript object helpers *)

Has(o, k) == k \in DOMAIN o

\* { ...a, ...b }
Spread(a, b) == [k \in (DOMAIN a) \cup (DOMAIN b) |-> IF k \in DOMAIN b THEN b[k] ELSE a[k]]

\* o[k] || 0 for a numeric field
NumOr0(o, k) == IF Has(o, k) THEN o[k] ELSE 0

EmptyObj == [k \in {} |-> 0]

NoShape == "null"

-----------------------------------------------------------------------------
(* eventStore.js: pure parts *)

STORED_EVENT_TYPES ==
    {"USER_CONNECTED", "USER_DISCONNECTED", "POINTER_DOWN", "DRAG_START", "DRAG_END",
     "SHAPE_CREATED", "SHAPE_EDITED", "SHAPE_MOVED", "SHAPE_DELETED"}

\* (variant: DRAG_MOVE counted among the stored kinds)
shouldStoreEventOrDragMove(eventType) == eventType \in STORED_EVENT_TYPES \cup {"DRAG_MOVE"}

shouldStoreEvent(eventType) == eventType \in STORED_EVENT_TYPES

\* the 1-second window of detectConflict
ConflictWindowMs == 1000

\* client wins a key iff its timestamp is newer than the server's
mergeProperties(serverProps, clientProps, serverTimestamps, clientTimestamps) ==
    LET won == {k \in DOMAIN clientProps :
                   NumOr0(clientTimestamps, k) > NumOr0(serverTimestamps, k)}
    IN  [k \in (DOMAIN serverProps) \cup won |->
            IF k \in won THEN clientProps[k] ELSE serverProps[k]]

\* SELECT ... FROM shapes WHERE id = $1 AND canvas_id = $2, on the rows `view`
ShapeRowOf(view, canvasId, shapeId) ==
    shapeId \in DOMAIN view /\ view[shapeId].canvas_id = canvasId

\* payload.timestamp || payload.propertyTimestamps?.timestamp || 0
ClientTimestamp(payload) ==
    IF NumOr0(payload, "timestamp") # 0 THEN payload.timestamp
    ELSE IF Has(payload, "propertyTimestamps")
         THEN NumOr0(payload.propertyTimestamps, "timestamp")
         ELSE 0

\* <<>> is null, <<c>> a conflict
detectConflict(view, canvasId, shapeId, payload) ==
    IF shapeId = NoShape THEN <<>>
    ELSE IF ~ShapeRowOf(view, canvasId, shapeId) THEN <<>>
    ELSE LET serverShape == view[shapeId]
             clientTimestamp == ClientTimestamp(payload)
             serverTimestamp == serverShape.updated_at
         IN  IF Has(payload, "vectorClock")
                /\ serverTimestamp > clientTimestamp - ConflictWindowMs
             THEN << [shapeId |-> shapeId,
                      serverProperties |-> serverShape.properties,
                      serverTimestamp |-> serverTimestamp] >>
             ELSE <<>>

\* clientPayload.properties || clientPayload.position || clientPayload
ClientProperties(clientPayload) ==
    IF Has(clientPayload, "properties") THEN clientPayload.properties
    ELSE IF Has(clientPayload, "position") THEN clientPayload.position
    ELSE clientPayload

resolveConflict(conflict, clientPayload) ==
    LET serverProperties == conflict.serverProperties
        clientProperties == ClientProperties(clientPayload)
        serverTimestamps == EmptyObj
        clientTimestamps == IF Has(clientPayload, "propertyTimestamps")
                            THEN clientPayload.propertyTimestamps ELSE EmptyObj
        mergedProperties == mergeProperties(serverProperties, clientProperties,
                                            serverTimestamps, clientTimestamps)
    IN  Spread(clientPayload, [properties |-> mergedProperties, conflictResolved |-> TRUE])

\* payload.properties || payload
PropsOrEmpty(payload) == IF Has(payload, "properties") THEN payload.properties ELSE EmptyObj

PropsOrSelf(payload) == IF Has(payload, "properties") THEN payload.properties ELSE payload

\* payload.position || payload
PositionOf(payload) == IF Has(payload, "position") THEN payload.position ELSE payload

\* payload.zIndex || properties.zIndex || 0
ZIndexOf(payload) ==
    IF NumOr0(payload, "zIndex") # 0 THEN payload.zIndex
    ELSE NumOr0(PropsOrSelf(payload), "zIndex")

HasType(payload) == Has(payload, "type") \/ Has(PropsOrSelf(payload), "type")

\* payload.type || properties.type
TypeOf(payload) == IF Has(payload, "type") THEN payload.type ELSE PropsOrSelf(payload).type

\* a statement of applyEvent that the database rejects (NOT NULL on shapes.id,
\* shapes.type and shapes.properties): the query throws
applyThrows(view, canvasId, eventType, shapeId, payload) ==
    CASE eventType = "SHAPE_CREATED" -> shapeId = NoShape \/ ~HasType(payload)
      [] eventType = "SHAPE_MOVED" ->
            /\ ShapeRowOf(view, canvasId, shapeId)
            /\ ~(Has(PositionOf(payload), "x") /\ Has(PositionOf(payload), "y"))
      [] eventType = "DRAG_END" ->
            /\ Has(payload, "endPosition")
            /\ ShapeRowOf(view, canvasId, shapeId)
            /\ ~(Has(payload.endPosition, "x") /\ Has(payload.endPosition, "y"))
      [] OTHER -> FALSE

\* whether applyEvent issues a statement that writes (and locks) the shape's row
applyWrites(eventType, payload) ==
    CASE eventType \in {"SHAPE_CREATED", "SHAPE_EDITED", "SHAPE_MOVED", "SHAPE_DELETED"} -> TRUE
      [] eventType = "DRAG_END" -> Has(payload, "endPosition")
      [] OTHER -> FALSE

\* INSERT ... ON CONFLICT (id) DO UPDATE SET properties, z_index, updated_at, deleted_at:
\* the conflict target is the primary key id alone; type and canvas_id of an existing
\* row are not in the SET list
UpsertShape(view, canvasId, shapeId, payload, ts) ==
    IF shapeId \in DOMAIN view
    THEN [view[shapeId] EXCEPT !.properties = PropsOrSelf(payload),
                               !.z_index = ZIndexOf(payload),
                               !.updated_at = ts,
                               !.deleted_at = 0]
    ELSE [canvas_id |-> canvasId, type |-> TypeOf(payload),
          properties |-> PropsOrSelf(payload), z_index |-> ZIndexOf(payload),
          updated_at |-> ts, deleted_at |-> 0]

\* properties = jsonb_set(jsonb_set(properties, '{x}', $1), '{y}', $2)
SetXY(row, pos, ts) ==
    [row EXCEPT !.properties = Spread(row.properties, [x |-> pos.x, y |-> pos.y]),
                !.updated_at = ts]

\* The rows applyEvent writes, as shape id -> new row (empty when no row matches).
\* The legacy kinds of the switch are not in STORED_EVENT_TYPES, so neither
\* storeEvent nor storeBatchEvents reaches them.
applyEvent(view, canvasId, eventType, shapeId, payload, ts) ==
    CASE eventType = "SHAPE_CREATED" ->
            [s \in {shapeId} |-> UpsertShape(view, canvasId, shapeId, payload, ts)]
      [] eventType = "SHAPE_EDITED" /\ ShapeRowOf(view, canvasId, shapeId) ->
            [s \in {shapeId} |->
                [view[shapeId] EXCEPT
                    !.properties = Spread(view[shapeId].properties, PropsOrSelf(payload)),
                    !.updated_at = ts]]
      [] eventType = "SHAPE_MOVED" /\ ShapeRowOf(view, canvasId, shapeId) ->
            [s \in {shapeId} |-> SetXY(view[shapeId], PositionOf(payload), ts)]
      [] eventType = "DRAG_END" /\ Has(payload, "endPosition")
                                /\ ShapeRowOf(view, canvasId, shapeId) ->
            [s \in {shapeId} |-> SetXY(view[shapeId], payload.endPosition, ts)]
      [] eventType = "SHAPE_DELETED" /\ ShapeRowOf(view, canvasId, shapeId) ->
            [s \in {shapeId} |->
                [view[shapeId] EXCEPT !.deleted_at = ts, !.updated_at = ts]]
      [] OTHER -> EmptyObj

\* COALESCE(MAX(version), 0) over the rows `rows` of one canvas
MaxVersion(rows, canvasId) ==
    LET vs == {rows[n].version : n \in {m \in DOMAIN rows : rows[m].canvas_id = canvasId}}
    IN  IF vs = {} THEN 0 ELSE CHOOSE v \in vs : \A w \in vs : w <= v

-----------------------------------------------------------------------------
(* Inputs: the events callers submit.  S1/S2 are shape ids, A/B user ids. *)

\* C1 is the default canvas initDatabase creates
Canvases == {"C1", "C2"}
DefaultCanvas == "C1"
ShapeIds == {"S1", "S2"}

PCreateRect ==
    [type |-> "rectangle",
     properties |-> [x |-> 10, y |-> 20, strokeColor |-> "#000", strokeWidth |-> 2],
     zIndex |-> 0]
PCreateCircle ==
    [type |-> "circle", properties |-> [x |-> 1, y |-> 2, strokeColor |-> "#00f"], zIndex |-> 1]
PEditColor ==
    [properties |-> [strokeColor |-> "#f00"], vectorClock |-> [A |-> 1],
     propertyTimestamps |-> [strokeColor |-> 1000]]
PEditWidth ==
    [properties |-> [strokeWidth |-> 5], vectorClock |-> [B |-> 1],
     propertyTimestamps |-> [strokeWidth |-> 1001]]
\* an edit of a client whose clock runs ahead of the server's: outside the window
PEditAhead ==
    [properties |-> [strokeWidth |-> 9], vectorClock |-> [B |-> 2],
     propertyTimestamps |-> [strokeWidth |-> 9000], timestamp |-> 9000]
PMove == [position |-> [x |-> 100, y |-> 200]]
PDragEnd ==
    [startPosition |-> [x |-> 10, y |-> 20], endPosition |-> [x |-> 7, y |-> 8],
     timestamp |-> 1500]
PDelete == [timestamp |-> 1500]
PPointer == [x |-> 3, y |-> 4]

Ev(lid, user, kind, sid, payload) ==
    [localEventId |-> lid, userId |-> user, eventType |-> kind, shapeId |-> sid,
     payload |-> payload]

ECreate1 == Ev("L1", "A", "SHAPE_CREATED", "S1", PCreateRect)
ECreate1c == Ev("L2", "B", "SHAPE_CREATED", "S1", PCreateCircle)
ECreate2 == Ev("L3", "B", "SHAPE_CREATED", "S2", PCreateCircle)
EEditColor == Ev("L4", "A", "SHAPE_EDITED", "S1", PEditColor)
EEditWidth == Ev("L5", "B", "SHAPE_EDITED", "S1", PEditWidth)
EEditAhead == Ev("L6", "B", "SHAPE_EDITED", "S1", PEditAhead)
EMove == Ev("L7", "A", "SHAPE_MOVED", "S1", PMove)
EDragEnd == Ev("L8", "A", "DRAG_END", "S1", PDragEnd)
EDelete == Ev("L9", "B", "SHAPE_DELETED", "S1", PDelete)
EPointer == Ev("L10", "A", "POINTER_DOWN", NoShape, PPointer)
\* an intra-drag position update: not a storable kind
EDragMove == Ev("L11", "A", "DRAG_MOVE", "S1", PMove)
\* a create without a type: the INSERT into shapes violates type NOT NULL
ECreateNoType == Ev("L12", "B", "SHAPE_CREATED", "S2", [properties |-> [x |-> 5, y |-> 6]])

\* the calls of storeEvent: canvas and event (S1 is also created on C2: shapes.id is
\* the primary key of the table, not of the canvas)
StoreRequests ==
    ({"C1"} \X {ECreate1, ECreate1c, EEditColor, EEditWidth, EMove, EDelete, EPointer,
                EDragMove})
    \cup ({"C2"} \X {ECreate1})

\* the calls of storeBatchEvents
BatchRequests ==
    {"C1"} \X {<<ECreate2, EEditAhead>>, <<EEditColor, EEditWidth>>,
               <<EDragMove, EDragEnd, EDelete>>}

-----------------------------------------------------------------------------
(* eventStore.js: the write API as transactions *)

Running(c) == c.pc \in {"detect", "version", "write", "commit"}
Finished(c) == c.pc \in {"returned", "threw"}
Idle == \A k \in DOMAIN calls : Finished(calls[k])

\* the first index >= n of a storable event of the batch, Len + 1 when there is none
\* (storeBatchEvents: "if (!shouldStoreEvent(eventType)) continue")
NextStorable(evs, n) ==
    LET later == {m \in n..Len(evs) : shouldStoreEvent(evs[m].eventType)}
    IN  IF later = {} THEN Len(evs) + 1 ELSE CHOOSE m \in later : \A q \in later : m <= q

NewCall(op, canvasId, evs, pc, i) ==
    [op |-> op, canvasId |-> canvasId, evs |-> evs, pc |-> pc, i |-> i,
     txnTime |-> now, conflict |-> <<>>, resolvedPayload |-> EmptyObj, version |-> 0,
     inserts |-> <<>>, writes |-> EmptyObj, storedEvents |-> <<>>, conflicts |-> <<>>]

\* storeEvent up to BEGIN; a non-storable kind goes to getCurrentVersion instead
BeginStoreEvent(canvasId, ev) ==
    NewCall("storeEvent", canvasId, <<ev>>,
            IF shouldStoreEvent(ev.eventType) THEN "detect" ELSE "currentVersion", 1)

\* storeBatchEvents up to BEGIN and the first storable event of the loop
BeginStoreBatch(canvasId, evs) ==
    LET first == NextStorable(evs, 1)
    IN  NewCall("storeBatchEvents", canvasId, evs,
                IF first > Len(evs) THEN "commit" ELSE "detect", first)

\* the shape rows a transaction sees: committed rows and its own writes
TxnView(c) == Spread(shapes, c.writes)

\* storeEvent on a non-storable kind: getCurrentVersion, then return stored: false
\* (eventId null is 0)
StoreEventNotStored(k) ==
    /\ calls[k].pc = "currentVersion"
    /\ LET c == calls[k]
           ev == c.evs[1]
       IN  calls' = [calls EXCEPT ![k] =
              [c EXCEPT !.pc = "returned",
                        !.version = MaxVersion(events, c.canvasId),
                        !.storedEvents = << [eventId |-> 0,
                            version |-> MaxVersion(events, c.canvasId),
                            canvasId |-> c.canvasId, userId |-> ev.userId,
                            eventType |-> ev.eventType, shapeId |-> ev.shapeId,
                            payload |-> ev.payload, stored |-> FALSE] >>]]
    /\ UNCHANGED <<canvases, events, shapes, now, nextId>>

\* detectConflict and, on a conflict, resolveConflict (the batch also records it)
TxnDetect(k) ==
    /\ calls[k].pc = "detect"
    /\ LET c == calls[k]
           ev == c.evs[c.i]
           conflict == detectConflict(TxnView(c), c.canvasId, ev.shapeId, ev.payload)
           resolvedPayload == IF Len(conflict) > 0
                              THEN resolveConflict(conflict[1], ev.payload)
                              ELSE ev.payload
       IN  calls' = [calls EXCEPT ![k] =
              [c EXCEPT !.pc = "version",
                        !.conflict = conflict,
                        !.resolvedPayload = resolvedPayload,
                        !.conflicts =
                            IF c.op = "storeBatchEvents" /\ Len(conflict) > 0
                            THEN Append(c.conflicts,
                                    [shapeId |-> ev.shapeId,
                                     localVersion |-> PropsOrSelf(ev.payload),
                                     serverVersion |-> conflict[1].serverProperties,
                                     serverTimestamps |-> EmptyObj])
                            ELSE c.conflicts]]
    /\ UNCHANGED <<canvases, events, shapes, now, nextId>>

\* the version query as if it ran outside the transaction (own inserts not seen)
NextVersionCommittedOnly(c) == MaxVersion(events, c.canvasId) + 1

\* SELECT COALESCE(MAX(version), 0) + 1: committed rows and the transaction's own inserts
NextVersion(c) == MaxVersion(events \o c.inserts, c.canvasId) + 1

TxnVersion(k) ==
    /\ calls[k].pc = "version"
    /\ calls' = [calls EXCEPT ![k] =
          [calls[k] EXCEPT !.pc = "write", !.version = NextVersion(calls[k])]]
    /\ UNCHANGED <<canvases, events, shapes, now, nextId>>

\* the row of shape `sid` is written by another transaction that has not committed:
\* an UPDATE of a committed row, or an INSERT of the same primary key, waits for it
RowLocked(k, eventType, sid) ==
    \E j \in DOMAIN calls :
        /\ j # k
        /\ Running(calls[j])
        /\ sid \in DOMAIN calls[j].writes
        /\ (eventType = "SHAPE_CREATED" \/ sid \in DOMAIN shapes)

\* the events row of one stored event
EventRow(c, ev, eventId) ==
    [id |-> eventId, canvas_id |-> c.canvasId, shape_id |-> ev.shapeId,
     user_id |-> ev.userId, event_type |-> ev.eventType, payload |-> c.resolvedPayload,
     version |-> c.version]

\* what storeEvent returns / storeBatchEvents pushes for one stored event
StoredRecord(c, ev, eventId) ==
    LET base == [eventId |-> eventId, version |-> c.version, canvasId |-> c.canvasId,
                 userId |-> ev.userId, eventType |-> ev.eventType, shapeId |-> ev.shapeId,
                 payload |-> c.resolvedPayload, hadConflict |-> Len(c.conflict) > 0]
    IN  IF c.op = "storeEvent" THEN Spread(base, [stored |-> TRUE]) ELSE base

\* (variant: the catch block commits what the transaction has written so far)
CommitOnError(c) == [c EXCEPT !.pc = "commit"]

\* catch: ROLLBACK discards the transaction's rows, and the error is thrown on
Rollback(c) ==
    [c EXCEPT !.pc = "threw", !.inserts = <<>>, !.writes = EmptyObj,
              !.storedEvents = <<>>, !.conflicts = <<>>]

\* INSERT INTO events (foreign key canvas_id -> canvases) and applyEvent; a rejected
\* statement throws: ROLLBACK, and the caller sees the error
TxnWrite(k) ==
    /\ calls[k].pc = "write"
    /\ LET c == calls[k]
           ev == c.evs[c.i]
           throws == \/ c.canvasId \notin canvases
                     \/ applyThrows(TxnView(c), c.canvasId, ev.eventType, ev.shapeId,
                                    c.resolvedPayload)
           next == NextStorable(c.evs, c.i + 1)
       IN  /\ throws \/ ~applyWrites(ev.eventType, c.resolvedPayload)
                     \/ ~RowLocked(k, ev.eventType, ev.shapeId)
           /\ calls' = [calls EXCEPT ![k] =
                 IF throws
                 THEN Rollback(c)
                 ELSE [c EXCEPT
                         !.pc = IF c.op = "storeBatchEvents" /\ next <= Len(c.evs)
                                THEN "detect" ELSE "commit",
                         !.i = next,
                         !.inserts = Append(c.inserts, EventRow(c, ev, nextId)),
                         !.writes = Spread(c.writes,
                                       applyEvent(TxnView(c), c.canvasId, ev.eventType,
                                                  ev.shapeId, c.resolvedPayload, c.txnTime)),
                         !.storedEvents = Append(c.storedEvents,
                                                 StoredRecord(c, ev, nextId))]]
    /\ nextId' = nextId + 1
    /\ UNCHANGED <<canvases, events, shapes, now>>

\* UPDATE canvases SET updated_at; COMMIT: the transaction's rows become visible
TxnCommit(k) ==
    /\ calls[k].pc = "commit"
    /\ events' = events \o calls[k].inserts
    /\ shapes' = Spread(shapes, calls[k].writes)
    /\ calls' = [calls EXCEPT ![k] = [calls[k] EXCEPT !.pc = "returned"]]
    /\ UNCHANGED <<canvases, now, nextId>>

\* INSERT INTO canvases ... ON CONFLICT (id) DO UPDATE SET updated_at: the table after it
getOrCreateCanvas(canvasId) == canvases \cup {canvasId}

\* SELECT ... FROM events WHERE canvas_id = $1 AND version > $2 ORDER BY version ASC
\* (rows of equal version keep their commit order here)
RECURSIVE SortByVersion(_)
SortByVersion(rows) ==
    IF rows = <<>> THEN <<>>
    ELSE LET least == CHOOSE n \in DOMAIN rows :
                         \A m \in DOMAIN rows :
                            rows[n].version < rows[m].version
                            \/ (rows[n].version = rows[m].version /\ n <= m)
             rest == [m \in 1..(Len(rows) - 1) |->
                         IF m < least THEN rows[m] ELSE rows[m + 1]]
         IN  <<rows[least]>> \o SortByVersion(rest)

\* (variant: WHERE version >= $2)
getEventsFromVersion(canvasId, sinceVersion) ==
    SortByVersion(SelectSeq(events,
        LAMBDA e : e.canvas_id = canvasId /\ e.version >= sinceVersion))

getEventsSinceVersion(canvasId, sinceVersion) ==
    SortByVersion(SelectSeq(events,
        LAMBDA e : e.canvas_id = canvasId /\ e.version > sinceVersion))

\* one element of getCanvasState's shapes: { id, type, ...row.properties, zIndex }
RenderShape(id, row) ==
    Spread(Spread([id |-> id, type |-> row.type], row.properties), [zIndex |-> row.z_index])

\* the live rows of a canvas in `rows`, ORDER BY z_index ASC (rows of equal z_index
\* in the order of their ids)
RECURSIVE SortShapes(_, _)
SortShapes(rows, ids) ==
    IF ids = {} THEN <<>>
    ELSE LET first == CHOOSE s \in ids :
                         \A t \in ids :
                            rows[s].z_index < rows[t].z_index
                            \/ (rows[s].z_index = rows[t].z_index
                                /\ (s = t \/ s = CHOOSE u \in {s, t} : TRUE))
         IN  <<RenderShape(first, rows[first])>> \o SortShapes(rows, ids \ {first})

StateShapes(rows, canvasId) ==
    SortShapes(rows, {s \in DOMAIN rows :
                        rows[s].canvas_id = canvasId /\ rows[s].deleted_at = 0})

getCanvasState(canvasId) ==
    [shapes |-> StateShapes(shapes, canvasId), version |-> MaxVersion(events, canvasId)]

-----------------------------------------------------------------------------
(* The store driven through its API, one call at a time *)

\* no client has connected
NoSockets ==
    /\ open = {}
    /\ connections = {}
    /\ connInfo = EmptyObj
    /\ canvasRooms = EmptyObj
    /\ inbox = EmptyObj
    /\ handlers = <<>>
    /\ audience = EmptyObj

\* no client is modelled
\* no SyncService has been initialised, nothing is queued
NoSync ==
    /\ pendingEvents = <<>>
    /\ syncService = EmptyObj
    /\ tasks = <<>>

NoClient ==
    /\ NoSync
    /\ conflictResolver = EmptyObj
    /\ localShapes = EmptyObj
    /\ handled = <<>>
    /\ args = EmptyObj
    /\ result = EmptyObj

Tick ==
    /\ now < ConflictWindowMs * (1 + MaxTicks)
    /\ now' = now + ConflictWindowMs
    /\ UNCHANGED <<canvases, events, shapes, nextId, calls>>
    /\ UNCHANGED <<wsVars, clientVars>>

CallGetOrCreateCanvas(canvasId) ==
    /\ canvases' = getOrCreateCanvas(canvasId)
    /\ UNCHANGED <<events, shapes, now, nextId, calls>>
    /\ UNCHANGED <<wsVars, clientVars>>

CallStoreEvent(canvasId, ev) ==
    /\ Len(calls) < MaxCalls
    /\ calls' = Append(calls, BeginStoreEvent(canvasId, ev))
    /\ UNCHANGED <<canvases, events, shapes, now, nextId>>
    /\ UNCHANGED <<wsVars, clientVars>>

CallStoreBatch(canvasId, evs) ==
    /\ Len(calls) < MaxCalls
    /\ calls' = Append(calls, BeginStoreBatch(canvasId, evs))
    /\ UNCHANGED <<canvases, events, shapes, now, nextId>>
    /\ UNCHANGED <<wsVars, clientVars>>

StoreInit ==
    /\ canvases = {DefaultCanvas}
    /\ events = <<>>
    /\ shapes = EmptyObj
    /\ now = ConflictWindowMs
    /\ nextId = 1
    /\ calls = <<>>

TxnStep ==
    \E k \in DOMAIN calls :
        \/ StoreEventNotStored(k) /\ UNCHANGED <<wsVars, clientVars>>
        \/ TxnDetect(k) /\ UNCHANGED <<wsVars, clientVars>>
        \/ TxnVersion(k) /\ UNCHANGED <<wsVars, clientVars>>
        \/ TxnWrite(k) /\ UNCHANGED <<wsVars, clientVars>>
        \/ TxnCommit(k) /\ UNCHANGED <<wsVars, clientVars>>

\* the store alone: no socket has connected
Init ==
    /\ StoreInit
    /\ NoSockets
    /\ NoClient

SeqNext ==
    \/ Idle /\ \E c \in Canvases : CallGetOrCreateCanvas(c)
    \/ Idle /\ \E r \in StoreRequests : CallStoreEvent(r[1], r[2])
    \/ Idle /\ \E r \in BatchRequests : CallStoreBatch(r[1], r[2])
    \/ Idle /\ Tick
    \/ TxnStep

Spec == Init /\ [][SeqNext]_vars

-----------------------------------------------------------------------------
(* The store under concurrent callers: the transactions of different calls       *)
(* interleave statement by statement (each call has its own pool client).        *)

TxnStoreRequests == {"C1"} \X {ECreate1, EEditColor, EEditWidth, EDragMove}

TxnBatchRequests == {"C1"} \X {<<EEditWidth, EMove>>}

TxnNext ==
    \/ \E r \in TxnStoreRequests : CallStoreEvent(r[1], r[2])
    \/ \E r \in TxnBatchRequests : CallStoreBatch(r[1], r[2])
    \/ Tick
    \/ TxnStep

SpecTxn == Init /\ [][TxnNext]_vars

-----------------------------------------------------------------------------
(* websocketManager.js *)

Sockets == {"w1", "w2"}

\* the userId query parameter each socket connected with
UserOf(w) == IF w = "w1" THEN "A" ELSE "B"

NoCanvas == "null"
NoSocket == "null"

\* the manager's in-memory state, as one value the helpers below transform
Node == [rooms |-> canvasRooms, inbox |-> inbox, info |-> connInfo, aud |-> audience]

\* send: only to a socket whose readyState is OPEN
send(n, w, message) ==
    IF w \in open THEN [n EXCEPT !.inbox[w] = Append(@, message)] ELSE n

sendError(n, w, error) == send(n, w, [type |-> "ERROR", error |-> error])

\* (variant: the excluded socket is sent the message too)
broadcastToCanvasAll(n, canvasId, message, excludeWs) ==
    IF canvasId \notin DOMAIN n.rooms THEN n
    ELSE [n EXCEPT !.inbox =
            [w \in DOMAIN n.inbox |->
                IF w \in n.rooms[canvasId] /\ w \in open
                THEN Append(n.inbox[w], message) ELSE n.inbox[w]]]

\* every socket of the room except excludeWs
broadcastToCanvas(n, canvasId, message, excludeWs) ==
    IF canvasId \notin DOMAIN n.rooms THEN n
    ELSE [n EXCEPT !.inbox =
            [w \in DOMAIN n.inbox |->
                IF w \in n.rooms[canvasId] /\ w # excludeWs /\ w \in open
                THEN Append(n.inbox[w], message) ELSE n.inbox[w]]]

\* room.delete(ws); an empty room is removed from the map
RoomsWithout(rooms, canvasId, w) ==
    IF canvasId \notin DOMAIN rooms THEN rooms
    ELSE IF rooms[canvasId] \ {w} = {}
         THEN [c \in (DOMAIN rooms) \ {canvasId} |-> rooms[c]]
         ELSE [rooms EXCEPT ![canvasId] = @ \ {w}]

\* (the history `aud` forgets a socket that leaves)
handleLeaveCanvas(n, w) ==
    IF n.info[w].canvasId = NoCanvas THEN n
    ELSE LET canvasId == n.info[w].canvasId
             n1 == [n EXCEPT !.rooms = RoomsWithout(n.rooms, canvasId, w)]
             n2 == broadcastToCanvas(n1, canvasId,
                       [type |-> "USER_LEFT", userId |-> n.info[w].userId], NoSocket)
         IN  [n2 EXCEPT !.info[w].canvasId = NoCanvas,
                        !.aud = [e \in DOMAIN n.aud |-> n.aud[e] \ {w}]]

\* users of a room: the sockets of the room that still have a connections entry
getCanvasUsers(n, canvasId) ==
    IF canvasId \notin DOMAIN n.rooms THEN {}
    ELSE {[userId |-> n.info[w].userId, username |-> n.info[w].username] :
             w \in n.rooms[canvasId] \cap connections}

SetNode(n) ==
    /\ canvasRooms' = n.rooms
    /\ inbox' = n.inbox
    /\ connInfo' = n.info
    /\ audience' = n.aud

NewHandler(w, message, pc) ==
    [ws |-> w, msg |-> message, pc |-> pc, call |-> 0, canvasId |-> NoCanvas,
     missedEvents |-> <<>>, shapes |-> <<>>, seen |-> {}, escaped |-> FALSE,
     response |-> EmptyObj]

\* a message arrives on an open socket that has a connections entry
CanReceive(w) == w \in open /\ w \in connections /\ Len(handlers) < MaxMsgs

\* JOIN_CANVAS up to the first await: without a canvasId an ERROR; otherwise leave
\* the previous canvas, getOrCreateCanvas
ReceiveJoinCanvas(w, canvasId) ==
    /\ CanReceive(w)
    /\ IF canvasId = NoCanvas
       THEN /\ SetNode(sendError(Node, w, "Canvas ID is required"))
            /\ canvases' = canvases
            /\ handlers' = Append(handlers,
                  NewHandler(w, [type |-> "JOIN_CANVAS", canvasId |-> canvasId], "done"))
       ELSE /\ SetNode(IF connInfo[w].canvasId # NoCanvas
                       THEN handleLeaveCanvas(Node, w) ELSE Node)
            /\ canvases' = getOrCreateCanvas(canvasId)
            /\ handlers' = Append(handlers,
                  NewHandler(w, [type |-> "JOIN_CANVAS", canvasId |-> canvasId], "attach"))
    /\ UNCHANGED <<clientVars, events, shapes, now, nextId, calls, open, connections>>

\* after getOrCreateCanvas: set connInfo.canvasId and username (the client's, here its
\* userId), add the socket to the room, and the first query of getCanvasState (seen:
\* the ids of the events committed by then)
JoinAttach(h) ==
    /\ handlers[h].pc = "attach"
    /\ LET w == handlers[h].ws
           canvasId == handlers[h].msg.canvasId
       IN  /\ connInfo' = [connInfo EXCEPT ![w].canvasId = canvasId,
                                           ![w].username = connInfo[w].userId]
           /\ canvasRooms' =
                 IF canvasId \in DOMAIN canvasRooms
                 THEN [canvasRooms EXCEPT ![canvasId] = @ \cup {w}]
                 ELSE Spread(canvasRooms, [c \in {canvasId} |-> {w}])
           /\ handlers' = [handlers EXCEPT
                 ![h].pc = "respond",
                 ![h].shapes = StateShapes(shapes, canvasId),
                 ![h].seen = {events[n].id :
                                n \in {m \in DOMAIN events : events[m].canvas_id = canvasId}}]
    /\ UNCHANGED <<clientVars, canvases, events, shapes, now, nextId, calls, open, connections, inbox,
                   audience>>

\* the version query of getCanvasState, then JOIN_SUCCESS, CANVAS_STATE, USER_JOINED
JoinRespond(h) ==
    /\ handlers[h].pc = "respond"
    /\ handlers[h].msg.type = "JOIN_CANVAS"
    /\ LET w == handlers[h].ws
           canvasId == handlers[h].msg.canvasId
           n1 == send(Node, w, [type |-> "JOIN_SUCCESS", canvasId |-> canvasId,
                                userId |-> connInfo[w].userId,
                                username |-> connInfo[w].username])
           n2 == send(n1, w, [type |-> "CANVAS_STATE", canvasId |-> canvasId,
                              shapes |-> handlers[h].shapes,
                              version |-> MaxVersion(events, canvasId),
                              users |-> getCanvasUsers(Node, canvasId),
                              seen |-> handlers[h].seen])
           n3 == broadcastToCanvas(n2, canvasId,
                     [type |-> "USER_JOINED", userId |-> connInfo[w].userId,
                      username |-> connInfo[w].username], w)
       IN  SetNode(n3)
    /\ handlers' = [handlers EXCEPT ![h].pc = "done"]
    /\ UNCHANGED <<clientVars, canvases, events, shapes, now, nextId, calls, open, connections>>

ReceiveLeaveCanvas(w) ==
    /\ CanReceive(w)
    /\ SetNode(handleLeaveCanvas(Node, w))
    /\ handlers' = Append(handlers, NewHandler(w, [type |-> "LEAVE_CANVAS"], "done"))
    /\ UNCHANGED <<clientVars, canvases, events, shapes, now, nextId, calls, open, connections>>

\* SHAPE_EVENT up to the first await of storeEvent; userId is the connection's
ReceiveShapeEvent(w, ev) ==
    /\ CanReceive(w)
    /\ LET message == [type |-> "SHAPE_EVENT", localEventId |-> ev.localEventId,
                       eventType |-> ev.eventType, shapeId |-> ev.shapeId,
                       payload |-> ev.payload]
       IN  IF connInfo[w].canvasId = NoCanvas
           THEN /\ SetNode(sendError(Node, w, "Not joined to any canvas"))
                /\ handlers' = Append(handlers, NewHandler(w, message, "done"))
                /\ calls' = calls
           ELSE /\ SetNode(Node)
                /\ calls' = Append(calls,
                      BeginStoreEvent(connInfo[w].canvasId,
                                      [ev EXCEPT !.userId = connInfo[w].userId]))
                /\ handlers' = Append(handlers,
                      [NewHandler(w, message, "awaitStore") EXCEPT !.call = Len(calls) + 1])
    /\ UNCHANGED <<clientVars, canvases, events, shapes, now, nextId, open, connections>>

\* the message handleShapeEvent broadcasts (vectorClock and propertyTimestamps are
\* the original payload's, left out by JSON.stringify when undefined)
ShapeEventMessage(message, storedEvent, info) ==
    Spread([type |-> "SHAPE_EVENT", eventId |-> storedEvent.eventId,
            eventType |-> message.eventType, shapeId |-> message.shapeId,
            payload |-> storedEvent.payload, userId |-> info.userId,
            username |-> info.username, version |-> storedEvent.version,
            stored |-> storedEvent.stored],
           [k \in {"vectorClock", "propertyTimestamps"} \cap DOMAIN message.payload |->
               message.payload[k]])

EventAck(message, storedEvent) ==
    Spread([type |-> "EVENT_ACK", localEventId |-> message.localEventId,
            eventId |-> storedEvent.eventId, version |-> storedEvent.version,
            stored |-> storedEvent.stored],
           [k \in {"hadConflict"} \cap DOMAIN storedEvent |-> storedEvent[k]])

\* handleShapeEvent after storeEvent: ack, then broadcast to the room of the canvas
\* connInfo names now; a throw of storeEvent is answered with an ERROR
ShapeEventRespond(h) ==
    /\ handlers[h].pc = "awaitStore"
    /\ handlers[h].msg.type = "SHAPE_EVENT"
    /\ Finished(calls[handlers[h].call])
    /\ LET w == handlers[h].ws
           c == calls[handlers[h].call]
       IN  IF c.pc = "threw"
           THEN SetNode(sendError(Node, w, "Failed to process event"))
           ELSE LET storedEvent == c.storedEvents[1]
                    n1 == send(Node, w, EventAck(handlers[h].msg, storedEvent))
                IN  SetNode(broadcastToCanvas(n1, connInfo[w].canvasId,
                        ShapeEventMessage(handlers[h].msg, storedEvent, connInfo[w]), w))
    /\ handlers' = [handlers EXCEPT ![h].pc = "done"]
    /\ UNCHANGED <<clientVars, canvases, events, shapes, now, nextId, calls, open, connections>>

\* BATCH_SYNC up to the await of getEventsSinceVersion(connInfo.canvasId, ...)
ReceiveBatchSync(w, evs, lastKnownVersion) ==
    /\ CanReceive(w)
    /\ LET message == [type |-> "BATCH_SYNC", events |-> evs,
                       lastKnownVersion |-> lastKnownVersion]
       IN  IF connInfo[w].canvasId = NoCanvas
           THEN /\ SetNode(sendError(Node, w, "Not joined to any canvas"))
                /\ handlers' = Append(handlers, NewHandler(w, message, "done"))
           ELSE /\ SetNode(Node)
                /\ handlers' = Append(handlers,
                      [NewHandler(w, message, "missed") EXCEPT
                          !.canvasId = connInfo[w].canvasId])
    /\ UNCHANGED <<clientVars, canvases, events, shapes, now, nextId, calls, open, connections>>

\* the query of getEventsSinceVersion runs
BatchMissed(h) ==
    /\ handlers[h].pc = "missed"
    /\ handlers' = [handlers EXCEPT
          ![h].pc = "beginBatch",
          ![h].missedEvents =
              getEventsSinceVersion(handlers[h].canvasId, handlers[h].msg.lastKnownVersion)]
    /\ UNCHANGED <<clientVars, canvases, events, shapes, now, nextId, calls, open, connections,
                   connInfo, canvasRooms, inbox, audience>>

\* storeBatchEvents(connInfo.canvasId, events.map(e => ({...e, userId})))
BatchBegin(h) ==
    /\ handlers[h].pc = "beginBatch"
    /\ LET w == handlers[h].ws
           evs == [n \in DOMAIN handlers[h].msg.events |->
                      [handlers[h].msg.events[n] EXCEPT !.userId = connInfo[w].userId]]
       IN  calls' = Append(calls, BeginStoreBatch(connInfo[w].canvasId, evs))
    /\ handlers' = [handlers EXCEPT ![h].pc = "awaitStore", ![h].call = Len(calls) + 1]
    /\ UNCHANGED <<clientVars, canvases, events, shapes, now, nextId, open, connections, connInfo,
                   canvasRooms, inbox, audience>>

\* after storeBatchEvents: the first query of getCanvasState, or the catch branch
BatchState(h) ==
    /\ handlers[h].pc = "awaitStore"
    /\ handlers[h].msg.type = "BATCH_SYNC"
    /\ Finished(calls[handlers[h].call])
    /\ LET w == handlers[h].ws
       IN  IF calls[handlers[h].call].pc = "threw"
           THEN /\ SetNode(send(Node, w, [type |-> "BATCH_SYNC_RESULT", success |-> FALSE,
                                          error |-> "Failed to sync events"]))
                /\ handlers' = [handlers EXCEPT ![h].pc = "done"]
           ELSE /\ SetNode(Node)
                /\ handlers' = [handlers EXCEPT
                      ![h].pc = "respond",
                      ![h].shapes = StateShapes(shapes, connInfo[w].canvasId)]
    /\ UNCHANGED <<clientVars, canvases, events, shapes, now, nextId, calls, open, connections>>

\* events.find(le => le.shapeId === e.shapeId && le.eventType === e.eventType)?.localEventId
FindLocalEventId(evs, e) ==
    LET hits == {n \in DOMAIN evs :
                    evs[n].shapeId = e.shapeId /\ evs[n].eventType = e.eventType}
    IN  evs[CHOOSE n \in hits : \A m \in hits : n <= m].localEventId

BatchSyncResult(message, c, state) ==
    [type |-> "BATCH_SYNC_RESULT", success |-> TRUE,
     storedEvents |-> [n \in DOMAIN c.storedEvents |->
                          [localEventId |-> FindLocalEventId(message.events, c.storedEvents[n]),
                           eventId |-> c.storedEvents[n].eventId,
                           version |-> c.storedEvents[n].version,
                           hadConflict |-> c.storedEvents[n].hadConflict]],
     missedEvents |-> state.missedEvents,
     currentState |-> [shapes |-> state.shapes, version |-> state.version],
     conflicts |-> c.conflicts]

\* the message handleBatchSync broadcasts for one stored event
BatchEventMessage(event, info) ==
    Spread([type |-> "SHAPE_EVENT", eventId |-> event.eventId,
            eventType |-> event.eventType, shapeId |-> event.shapeId,
            payload |-> event.payload, userId |-> info.userId,
            username |-> info.username, version |-> event.version],
           [k \in {"vectorClock", "propertyTimestamps"} \cap DOMAIN event.payload |->
               event.payload[k]])

\* for (const event of storedEvents) broadcastToCanvas(...)
RECURSIVE BroadcastAll(_, _, _, _)
BroadcastAll(n, canvasId, messages, excludeWs) ==
    IF messages = <<>> THEN n
    ELSE BroadcastAll(broadcastToCanvas(n, canvasId, Head(messages), excludeWs),
                      canvasId, Tail(messages), excludeWs)

\* the version query of getCanvasState, BATCH_SYNC_RESULT, then the broadcasts
BatchRespond(h) ==
    /\ handlers[h].pc = "respond"
    /\ handlers[h].msg.type = "BATCH_SYNC"
    /\ LET w == handlers[h].ws
           c == calls[handlers[h].call]
           state == [missedEvents |-> handlers[h].missedEvents,
                     shapes |-> handlers[h].shapes,
                     version |-> MaxVersion(events, connInfo[w].canvasId)]
           n1 == send(Node, w, BatchSyncResult(handlers[h].msg, c, state))
       IN  SetNode(BroadcastAll(n1, connInfo[w].canvasId,
                       [n \in DOMAIN c.storedEvents |->
                           BatchEventMessage(c.storedEvents[n], connInfo[w])], w))
    /\ handlers' = [handlers EXCEPT ![h].pc = "done"]
    /\ UNCHANGED <<clientVars, canvases, events, shapes, now, nextId, calls, open, connections>>

\* ws 'close': the socket is no longer OPEN; handleDisconnect
Close(w) ==
    /\ w \in open
    /\ Len(handlers) < MaxMsgs
    /\ handlers' = Append(handlers, NewHandler(w, [type |-> "close"], "done"))
    /\ open' = open \ {w}
    /\ connections' = connections \ {w}
    /\ LET closing == [Node EXCEPT !.inbox = Node.inbox]
       IN  SetNode(IF w \in connections THEN handleLeaveCanvas(closing, w) ELSE closing)
    /\ UNCHANGED <<clientVars, canvases, events, shapes, now, nextId, calls>>

\* a transaction step of the store; at COMMIT the history records who is in the room
WsTxnStep ==
    \E k \in DOMAIN calls :
        \/ /\ \/ StoreEventNotStored(k)
              \/ TxnDetect(k)
              \/ TxnVersion(k)
              \/ TxnWrite(k)
           /\ UNCHANGED <<wsVars, clientVars>>
        \/ /\ TxnCommit(k)
           /\ audience' = Spread(audience,
                 [e \in {calls[k].inserts[n].id : n \in DOMAIN calls[k].inserts} |->
                     IF calls[k].canvasId \in DOMAIN canvasRooms
                     THEN canvasRooms[calls[k].canvasId] ELSE {}])
           /\ UNCHANGED <<clientVars, open, connections, connInfo, canvasRooms, inbox, handlers>>

\* the messages clients send
WsEvents == {ECreate1, EEditColor, EDragMove}
WsBatches == {<<ECreate1, EMove>>}

\* w1 has joined C1, w2 has connected; nothing has been stored yet
WsInit ==
    /\ StoreInit
    /\ open = Sockets
    /\ connections = Sockets
    /\ connInfo = [w \in Sockets |->
          [userId |-> UserOf(w),
           canvasId |-> IF w = "w1" THEN "C1" ELSE NoCanvas,
           username |-> IF w = "w1" THEN UserOf(w) ELSE "",
           isAlive |-> TRUE]]
    /\ canvasRooms = [c \in {"C1"} |-> {"w1"}]
    /\ inbox = [w \in Sockets |-> <<>>]
    /\ handlers = <<>>
    /\ audience = EmptyObj
    /\ NoClient

WsNext ==
    \/ \E w \in Sockets, c \in Canvases : ReceiveJoinCanvas(w, c)
    \/ \E w \in Sockets : ReceiveLeaveCanvas(w)
    \/ \E w \in Sockets, ev \in WsEvents : ReceiveShapeEvent(w, ev)
    \/ \E w \in Sockets, evs \in WsBatches : ReceiveBatchSync(w, evs, 0)
    \/ \E w \in Sockets : Close(w)
    \/ \E h \in DOMAIN handlers :
          \/ JoinAttach(h)
          \/ JoinRespond(h)
          \/ ShapeEventRespond(h)
          \/ BatchMissed(h)
          \/ BatchBegin(h)
          \/ BatchState(h)
          \/ BatchRespond(h)
    \/ WsTxnStep

SpecWs == WsInit /\ [][WsNext]_vars

-----------------------------------------------------------------------------
(* Re-sync: both sockets have joined C1; shape events and batches arrive and are   *)
(* handled one message at a time; one of the batches and one of the events cannot *)
(* be applied.                                                                    *)

SyncEvents == {ECreate1, EEditColor, ECreateNoType}
SyncBatches == {<<ECreate1c, EDragMove, EMove>>, <<ECreate2, ECreateNoType>>}
LastKnownVersions == {0, 1}

\* no handler is between two of its awaits
Quiet == \A h \in DOMAIN handlers : handlers[h].pc = "done"

SyncInit ==
    /\ StoreInit
    /\ open = Sockets
    /\ connections = Sockets
    /\ connInfo = [w \in Sockets |->
          [userId |-> UserOf(w), canvasId |-> "C1", username |-> UserOf(w),
           isAlive |-> TRUE]]
    /\ canvasRooms = [c \in {"C1"} |-> Sockets]
    /\ inbox = [w \in Sockets |-> <<>>]
    /\ handlers = <<>>
    /\ audience = EmptyObj
    /\ NoClient

SyncNext ==
    \/ Quiet /\ \E w \in Sockets, ev \in SyncEvents : ReceiveShapeEvent(w, ev)
    \/ Quiet /\ \E w \in Sockets, evs \in SyncBatches, v \in LastKnownVersions :
                   ReceiveBatchSync(w, evs, v)
    \/ \E h \in DOMAIN handlers :
          \/ ShapeEventRespond(h)
          \/ BatchMissed(h)
          \/ BatchBegin(h)
          \/ BatchState(h)
          \/ BatchRespond(h)
    \/ WsTxnStep

SpecSync == SyncInit /\ [][SyncNext]_vars

-----------------------------------------------------------------------------
(* The message handler of a connection and the dispatch of handleMessage, with the *)
(* messages that are not requests the manager serves: w1 has joined C1, w2 has not *)
(* joined a canvas.                                                               *)

\* frames that are not a JSON object: one that JSON.parse rejects, and the JSON
\* text null
Frames == {"{\"type\":", "null"}

\* JSON.parse(data.toString()) succeeds
IsJson(data) == data # "{\"type\":"

\* message types handleMessage has no case for ("undefined": a message without type)
UnknownTypes == {"PING", "undefined"}

\* `Unknown message type: ${message.type}`
UnknownTypeError(type) ==
    IF type = "PING" THEN "Unknown message type: PING"
    ELSE "Unknown message type: undefined"

\* GET_STATE without sinceVersion
NoVersion == -1

\* ws.on('message') with a frame that is not an object: a parse error is answered
\* with an ERROR; null parses, handleMessage throws a TypeError at message.type, and
\* the catch block throws it again when it formats message.type for its ERROR, so the
\* handler's promise rejects with nothing sent
ReceiveFrame(w, data) ==
    /\ CanReceive(w)
    /\ IF ~IsJson(data)
       THEN /\ SetNode(sendError(Node, w, "Invalid message format"))
            /\ handlers' = Append(handlers,
                  NewHandler(w, [type |-> "undefined", frame |-> data], "done"))
       ELSE /\ SetNode(Node)
            /\ handlers' = Append(handlers,
                  [NewHandler(w, [type |-> "undefined", frame |-> data], "done")
                      EXCEPT !.escaped = TRUE])
    /\ UNCHANGED <<clientVars, storeVars, open, connections>>

\* the default case of handleMessage
ReceiveUnknown(w, type) ==
    /\ CanReceive(w)
    /\ SetNode(sendError(Node, w, UnknownTypeError(type)))
    /\ handlers' = Append(handlers, NewHandler(w, [type |-> type], "done"))
    /\ UNCHANGED <<clientVars, storeVars, open, connections>>

\* handleGetState: events since a version, or the full state with the room's users
ReceiveGetState(w, sinceVersion) ==
    /\ CanReceive(w)
    /\ LET canvasId == connInfo[w].canvasId
       IN  SetNode(IF canvasId = NoCanvas
                   THEN sendError(Node, w, "Not joined to any canvas")
                   ELSE IF sinceVersion # NoVersion
                   THEN send(Node, w, [type |-> "INCREMENTAL_UPDATE",
                                       events |-> getEventsSinceVersion(canvasId, sinceVersion)])
                   ELSE send(Node, w, [type |-> "CANVAS_STATE", canvasId |-> canvasId,
                                       shapes |-> getCanvasState(canvasId).shapes,
                                       version |-> getCanvasState(canvasId).version,
                                       users |-> getCanvasUsers(Node, canvasId)]))
    /\ handlers' = Append(handlers,
          NewHandler(w, [type |-> "GET_STATE", sinceVersion |-> sinceVersion], "done"))
    /\ UNCHANGED <<clientVars, storeVars, open, connections>>

\* handleCursorMove: ignored without a canvas, otherwise broadcast to the others
ReceiveCursorMove(w) ==
    /\ CanReceive(w)
    /\ SetNode(IF connInfo[w].canvasId = NoCanvas THEN Node
               ELSE broadcastToCanvas(Node, connInfo[w].canvasId,
                        [type |-> "CURSOR_MOVE", userId |-> connInfo[w].userId,
                         username |-> connInfo[w].username, x |-> 1, y |-> 2], w))
    /\ handlers' = Append(handlers, NewHandler(w, [type |-> "CURSOR_MOVE"], "done"))
    /\ UNCHANGED <<clientVars, storeVars, open, connections>>

ProtoEvents == {ECreate1, EDragMove}
ProtoBatches == {<<ECreate2, EMove>>}

ProtoNext ==
    \/ Quiet /\ \E w \in Sockets, data \in Frames : ReceiveFrame(w, data)
    \/ Quiet /\ \E w \in Sockets, type \in UnknownTypes : ReceiveUnknown(w, type)
    \/ Quiet /\ \E w \in Sockets, c \in {NoCanvas, "C1"} : ReceiveJoinCanvas(w, c)
    \/ Quiet /\ \E w \in Sockets : ReceiveLeaveCanvas(w)
    \/ Quiet /\ \E w \in Sockets, ev \in ProtoEvents : ReceiveShapeEvent(w, ev)
    \/ Quiet /\ \E w \in Sockets, evs \in ProtoBatches : ReceiveBatchSync(w, evs, 0)
    \/ Quiet /\ \E w \in Sockets, v \in {NoVersion, 0} : ReceiveGetState(w, v)
    \/ Quiet /\ \E w \in Sockets : ReceiveCursorMove(w)
    \/ \E h \in DOMAIN handlers :
          \/ JoinAttach(h)
          \/ JoinRespond(h)
          \/ ShapeEventRespond(h)
          \/ BatchMissed(h)
          \/ BatchBegin(h)
          \/ BatchState(h)
          \/ BatchRespond(h)
    \/ WsTxnStep

SpecProto == WsInit /\ [][ProtoNext]_vars

-----------------------------------------------------------------------------
(* The heartbeat: the 30 s interval, the pong handler, and the close event of a   *)
(* terminated socket; sessions join and leave before the first tick.              *)

\* the pings sent to w, the pongs received from w, the ticks of the interval
Pings(w) == Cardinality({n \in DOMAIN inbox[w] : inbox[w][n].type = "ping"})
Pongs(w) ==
    Cardinality({h \in DOMAIN handlers :
                    handlers[h].ws = w /\ handlers[h].msg.type = "pong"})
Beats == Cardinality({h \in DOMAIN handlers : handlers[h].msg.type = "heartbeat"})

\* the sessions the interval callback terminates: in the sessions map, not alive
NotAlive == {w \in open \cap connections : ~connInfo[w].isAlive}

\* (variant: the callback pings without clearing isAlive)
HeartbeatNoReset ==
    /\ Beats < MaxBeats
    /\ open' = open \ NotAlive
    /\ connInfo' = connInfo
    /\ inbox' = [w \in DOMAIN inbox |->
                    IF w \in open \ NotAlive
                    THEN Append(inbox[w], [type |-> "ping"]) ELSE inbox[w]]
    /\ handlers' = Append(handlers, NewHandler(NoSocket, [type |-> "heartbeat"], "done"))
    /\ UNCHANGED <<clientVars, storeVars, connections, canvasRooms, audience>>

\* the setInterval callback: a session that is not alive is terminated (its socket
\* stops being OPEN, the close event follows); every other one is marked not alive
\* and pinged
Heartbeat ==
    /\ Beats < MaxBeats
    /\ open' = open \ NotAlive
    /\ connInfo' = [w \in DOMAIN connInfo |->
                       IF w \in (open \cap connections) \ NotAlive
                       THEN [connInfo[w] EXCEPT !.isAlive = FALSE] ELSE connInfo[w]]
    /\ inbox' = [w \in DOMAIN inbox |->
                    IF w \in open \ NotAlive
                    THEN Append(inbox[w], [type |-> "ping"]) ELSE inbox[w]]
    /\ handlers' = Append(handlers, NewHandler(NoSocket, [type |-> "heartbeat"], "done"))
    /\ UNCHANGED <<clientVars, storeVars, connections, canvasRooms, audience>>

\* ws.on('pong'): the client answers a ping it has not answered yet
Pong(w) ==
    /\ w \in open
    /\ Pongs(w) < Pings(w)
    /\ connInfo' = IF w \in connections
                   THEN [connInfo EXCEPT ![w].isAlive = TRUE] ELSE connInfo
    /\ handlers' = Append(handlers, NewHandler(w, [type |-> "pong"], "done"))
    /\ UNCHANGED <<clientVars, storeVars, open, connections, canvasRooms, inbox, audience>>

\* ws.on('close') of a socket that was terminated: handleDisconnect
CloseEvent(w) ==
    /\ w \notin open
    /\ w \in connections
    /\ connections' = connections \ {w}
    /\ SetNode(handleLeaveCanvas(Node, w))
    /\ UNCHANGED <<clientVars, storeVars, open, handlers>>

BeatNext ==
    \/ Heartbeat
    \/ \E w \in Sockets : Pong(w)
    \/ \E w \in Sockets : CloseEvent(w)
    \/ Beats = 0 /\ Quiet /\ \E w \in Sockets : ReceiveJoinCanvas(w, "C1")
    \/ Beats = 0 /\ Quiet /\ \E w \in Sockets : ReceiveLeaveCanvas(w)
    \/ Beats = 0 /\ \E h \in DOMAIN handlers : JoinAttach(h)
    \/ Beats = 0 /\ \E h \in DOMAIN handlers : JoinRespond(h)

\* the close event of a terminated socket fires
SpecBeat == WsInit /\ [][BeatNext]_vars /\ \A w \in Sockets : WF_vars(CloseEvent(w))

-----------------------------------------------------------------------------
(* index.js: POST /api/canvas/:canvasId/sync, beside BATCH_SYNC; both sockets have *)
(* joined C1 and requests are handled one at a time.                               *)

\* the request arrives; the body is destructured
PostSync(canvasId, evs, lastKnownVersion, userId) ==
    /\ Len(handlers) < MaxMsgs
    /\ handlers' = Append(handlers,
          [NewHandler(NoSocket,
                      [type |-> "POST_SYNC", events |-> evs,
                       lastKnownVersion |-> lastKnownVersion, userId |-> userId],
                      "restMissed")
              EXCEPT !.canvasId = canvasId])
    /\ UNCHANGED <<clientVars, storeVars, open, connections, connInfo, canvasRooms, inbox,
                   audience>>

\* the query of getEventsSinceVersion runs
RestMissed(h) ==
    /\ handlers[h].pc = "restMissed"
    /\ handlers' = [handlers EXCEPT
          ![h].pc = "restBegin",
          ![h].missedEvents =
              getEventsSinceVersion(handlers[h].canvasId, handlers[h].msg.lastKnownVersion)]
    /\ UNCHANGED <<clientVars, storeVars, open, connections, connInfo, canvasRooms, inbox,
                   audience>>

\* storeBatchEvents(canvasId, events.map(e => ({ ...e, userId })))
RestBegin(h) ==
    /\ handlers[h].pc = "restBegin"
    /\ LET evs == [n \in DOMAIN handlers[h].msg.events |->
                      [handlers[h].msg.events[n] EXCEPT !.userId = handlers[h].msg.userId]]
       IN  calls' = Append(calls, BeginStoreBatch(handlers[h].canvasId, evs))
    /\ handlers' = [handlers EXCEPT ![h].pc = "restAwait", ![h].call = Len(calls) + 1]
    /\ UNCHANGED <<clientVars, canvases, events, shapes, now, nextId, open, connections,
                   connInfo, canvasRooms, inbox, audience>>

\* after storeBatchEvents: the first query of getCanvasState, or the catch branch
\* with status 500
RestState(h) ==
    /\ handlers[h].pc = "restAwait"
    /\ Finished(calls[handlers[h].call])
    /\ IF calls[handlers[h].call].pc = "threw"
       THEN handlers' = [handlers EXCEPT
               ![h].pc = "done",
               ![h].response = [status |-> 500,
                                body |-> [error |-> "Internal server error"]]]
       ELSE handlers' = [handlers EXCEPT
               ![h].pc = "restRespond",
               ![h].shapes = StateShapes(shapes, handlers[h].canvasId)]
    /\ UNCHANGED <<clientVars, storeVars, open, connections, connInfo, canvasRooms, inbox,
                   audience>>

\* the version query of getCanvasState, then res.json: storedEvents is what
\* storeBatchEvents returned, the object { storedEvents, conflicts }
RestRespond(h) ==
    /\ handlers[h].pc = "restRespond"
    /\ LET c == calls[handlers[h].call]
       IN  handlers' = [handlers EXCEPT
               ![h].pc = "done",
               ![h].response =
                   [status |-> 200,
                    body |-> [success |-> TRUE,
                              storedEvents |-> [storedEvents |-> c.storedEvents,
                                                conflicts |-> c.conflicts],
                              missedEvents |-> handlers[h].missedEvents,
                              currentState |->
                                  [shapes |-> handlers[h].shapes,
                                   version |-> MaxVersion(events, handlers[h].canvasId)]]]]
    /\ UNCHANGED <<clientVars, storeVars, open, connections, connInfo, canvasRooms, inbox,
                   audience>>

RestBatches == {<<ECreate2, EDragMove, EMove>>, <<ECreate2, ECreateNoType>>}

RestNext ==
    \/ Quiet /\ \E evs \in RestBatches, v \in LastKnownVersions, u \in {"A", "B"} :
                   PostSync("C1", evs, v, u)
    \/ Quiet /\ \E w \in Sockets, evs \in RestBatches, v \in LastKnownVersions :
                   ReceiveBatchSync(w, evs, v)
    \/ \E h \in DOMAIN handlers :
          \/ RestMissed(h)
          \/ RestBegin(h)
          \/ RestState(h)
          \/ RestRespond(h)
          \/ BatchMissed(h)
          \/ BatchBegin(h)
          \/ BatchState(h)
          \/ BatchRespond(h)
    \/ WsTxnStep

SpecRest == SyncInit /\ [][RestNext]_vars

-----------------------------------------------------------------------------
(* conflictResolution.js: VectorClock, mergeShapeProperties, ConflictResolver    *)

Nodes == {"A", "B"}

\* sparse clocks: a map from some of the nodes to a counter
Clocks == UNION {[D -> 0..MaxClock] : D \in SUBSET Nodes}

\* this.clock[nodeId] || 0
get(clock, nodeId) == IF nodeId \in DOMAIN clock THEN clock[nodeId] ELSE 0

increment(clock, nodeId) ==
    Spread(clock, [n \in {nodeId} |-> get(clock, nodeId) + 1])

Max(x, y) == IF x >= y THEN x ELSE y

merge(clock, otherClock) ==
    [n \in (DOMAIN clock) \cup (DOMAIN otherClock) |->
        Max(get(clock, n), get(otherClock, n))]

\* the loop of happenedBefore over allNodes, with its early return
RECURSIVE happenedBeforeLoop(_, _, _, _)
happenedBeforeLoop(clock, otherClock, allNodes, atLeastOneLess) ==
    IF allNodes = {} THEN atLeastOneLess
    ELSE LET nodeId == CHOOSE n \in allNodes : TRUE
             thisVal == get(clock, nodeId)
             otherVal == get(otherClock, nodeId)
         IN  IF thisVal > otherVal THEN FALSE
             ELSE happenedBeforeLoop(clock, otherClock, allNodes \ {nodeId},
                                     atLeastOneLess \/ thisVal < otherVal)

\* (variant: the comparison of the two clocks the other way round)
happenedAfter(clock, otherClock) ==
    happenedBeforeLoop(otherClock, clock, (DOMAIN clock) \cup (DOMAIN otherClock), FALSE)

\* (variant: equal clocks count as before)
happenedBeforeOrEqual(clock, otherClock) ==
    \A n \in (DOMAIN clock) \cup (DOMAIN otherClock) : get(clock, n) <= get(otherClock, n)

happenedBefore(clock, otherClock) ==
    happenedBeforeLoop(clock, otherClock, (DOMAIN clock) \cup (DOMAIN otherClock), FALSE)

isConcurrent(clock, otherClock) ==
    ~happenedBefore(clock, otherClock) /\ ~happenedBefore(otherClock, clock)

\* (variant: a tie of the timestamps goes to the local value)
mergeShapePropertiesLocalTie(baseProps, localProps, remoteProps, localTimestamps, remoteTimestamps) ==
    Spread(baseProps,
           [key \in (DOMAIN localProps) \cup (DOMAIN remoteProps) |->
               IF key \notin DOMAIN remoteProps THEN localProps[key]
               ELSE IF key \notin DOMAIN localProps THEN remoteProps[key]
               ELSE IF NumOr0(localTimestamps, key) >= NumOr0(remoteTimestamps, key)
                    THEN localProps[key] ELSE remoteProps[key]])

\* an absent (undefined) properties object is the empty one: localProps || {}
mergeShapeProperties(baseProps, localProps, remoteProps, localTimestamps, remoteTimestamps) ==
    Spread(baseProps,
           [key \in (DOMAIN localProps) \cup (DOMAIN remoteProps) |->
               IF key \in DOMAIN localProps /\ key \notin DOMAIN remoteProps
               THEN localProps[key]
               ELSE IF key \in DOMAIN remoteProps /\ key \notin DOMAIN localProps
               THEN remoteProps[key]
               ELSE IF NumOr0(localTimestamps, key) > NumOr0(remoteTimestamps, key)
                    THEN localProps[key] ELSE remoteProps[key]])

\* new ConflictResolver(userId)
NewResolver(userId) ==
    [userId |-> userId, vectorClock |-> EmptyObj, propertyTimestamps |-> EmptyObj]

\* propertyTimestamps.get(shapeId) || {}
TimestampsOf(r, shapeId) ==
    IF shapeId \in DOMAIN r.propertyTimestamps THEN r.propertyTimestamps[shapeId]
    ELSE EmptyObj

\* the resolver after recordLocalOperation at time t (Date.now())
recordLocalOperation(r, shapeId, properties, t) ==
    [r EXCEPT
        !.vectorClock = increment(r.vectorClock, r.userId),
        !.propertyTimestamps =
            Spread(r.propertyTimestamps,
                   [sid \in {shapeId} |->
                       Spread(TimestampsOf(r, shapeId),
                              [key \in DOMAIN properties |-> t])])]

\* remoteEvent.vectorClock || {}
RemoteClockOf(remoteEvent) ==
    IF Has(remoteEvent, "vectorClock") THEN remoteEvent.vectorClock ELSE EmptyObj

RemotePropertiesOf(remoteEvent) ==
    IF Has(remoteEvent.payload, "properties") THEN remoteEvent.payload.properties
    ELSE EmptyObj

\* ConflictResolver.resolveConflict: the action, the shape, and the resolver after it
clientResolveConflict(r, shapeId, localShape, remoteEvent) ==
    LET remoteClock == RemoteClockOf(remoteEvent)
    IN  IF happenedBefore(remoteClock, r.vectorClock)
        THEN [action |-> "KEEP_LOCAL", shape |-> localShape, resolver |-> r]
        ELSE IF happenedBefore(r.vectorClock, remoteClock)
        THEN [action |-> "APPLY_REMOTE", shape |-> RemotePropertiesOf(remoteEvent),
              resolver |-> r]
        ELSE [action |-> "MERGE",
              shape |-> mergeShapeProperties(localShape, localShape,
                           RemotePropertiesOf(remoteEvent), TimestampsOf(r, shapeId),
                           IF Has(remoteEvent, "propertyTimestamps")
                           THEN remoteEvent.propertyTimestamps ELSE EmptyObj),
              resolver |-> [r EXCEPT !.vectorClock = merge(r.vectorClock, remoteClock)]]

updateFromRemote(r, remoteClock) ==
    [r EXCEPT !.vectorClock = merge(r.vectorClock, remoteClock)]

\* SyncService.handleRemoteEvent; localShape is <<>> (none) or <<shape>>
handleRemoteEvent(r, event, localShape) ==
    IF localShape = <<>> \/ ~Has(event, "payload")
    THEN [action |-> "APPLY_REMOTE",
          shape |-> IF Has(event, "payload") THEN RemotePropertiesOf(event) ELSE EmptyObj,
          resolver |-> r, resolved |-> FALSE]
    ELSE LET resolution == clientResolveConflict(r, event.shapeId, localShape[1], event)
         IN  [action |-> resolution.action, shape |-> resolution.shape,
              resolver |-> IF Has(event, "vectorClock")
                           THEN updateFromRemote(resolution.resolver, event.vectorClock)
                           ELSE resolution.resolver,
              resolved |-> TRUE]

\* the switch of applyRemoteEvent for the kinds that do not go through the resolver
ApplyPlain(shapeMap, event) ==
    LET sid == event.shapeId
        payload == event.payload
        existing == sid \in DOMAIN shapeMap
    IN  CASE event.eventType = "SHAPE_CREATED" /\ ~existing ->
                Spread(shapeMap,
                       [i \in {sid} |->
                           Spread(Spread([id |-> sid, type |-> payload.type],
                                         PropsOrEmpty(payload)),
                                  [zIndex |-> NumOr0(payload, "zIndex")])])
          [] event.eventType = "SHAPE_MOVED" /\ existing ->
                [shapeMap EXCEPT ![sid] =
                    Spread(@, [x |-> PositionOf(payload).x, y |-> PositionOf(payload).y])]
          [] event.eventType = "SHAPE_DELETED" ->
                [i \in (DOMAIN shapeMap) \ {sid} |-> shapeMap[i]]
          [] OTHER -> shapeMap

\* the client's inputs
BaseShape ==
    [id |-> "S1", type |-> "rectangle", x |-> 10, y |-> 20, strokeColor |-> "#000",
     strokeWidth |-> 2, zIndex |-> 0]

LocalEdits == {[strokeColor |-> "#f00"]}
LocalTimes == {1000}

\* SHAPE_EVENT messages as the server sends them
RemoteEdit(clockPart) ==
    Spread([type |-> "SHAPE_EVENT", eventType |-> "SHAPE_EDITED", shapeId |-> "S1",
            payload |-> [properties |-> [strokeColor |-> "#00f", strokeWidth |-> 5]],
            userId |-> "B"],
           clockPart)

RemoteEvents ==
    {RemoteEdit([vectorClock |-> c, propertyTimestamps |-> [strokeColor |-> t]]) :
        c \in Clocks, t \in {999, 1000, 1001}}
    \cup {RemoteEdit(EmptyObj)}
    \cup {[type |-> "SHAPE_EVENT", eventType |-> "SHAPE_CREATED", shapeId |-> "S1",
           payload |-> PCreateRect, userId |-> "B", vectorClock |-> [B |-> 1],
           propertyTimestamps |-> [strokeColor |-> 1000]],
          [type |-> "SHAPE_EVENT", eventType |-> "SHAPE_MOVED", shapeId |-> "S1",
           payload |-> PMove, userId |-> "B", vectorClock |-> [B |-> 2],
           propertyTimestamps |-> [x |-> 1000, y |-> 1000]],
          [type |-> "SHAPE_EVENT", eventType |-> "SHAPE_DELETED", shapeId |-> "S1",
           payload |-> PDelete, userId |-> "B"]}

\* updateShape: Object.assign(shape, properties), queueShapeEdited
UpdateShape(properties, t) ==
    /\ "S1" \in DOMAIN localShapes
    /\ get(conflictResolver.vectorClock, conflictResolver.userId) < MaxClock
    /\ localShapes' = [localShapes EXCEPT !["S1"] = Spread(@, properties)]
    /\ conflictResolver' = recordLocalOperation(conflictResolver, "S1", properties, t)
    /\ UNCHANGED <<handled, args, result>>
    /\ UNCHANGED <<storeVars, wsVars, syncVars>>

\* websocket.on('SHAPE_EVENT'): applyRemoteEvent
ApplyRemoteEvent(event) ==
    /\ Len(handled) < MaxRemote
    /\ LET sid == event.shapeId
           existing == sid \in DOMAIN localShapes
       IN  IF existing /\ event.eventType \in {"SHAPE_EDITED", "SHAPE_UPDATED"}
           THEN LET resolution ==
                        handleRemoteEvent(conflictResolver, event, <<localShapes[sid]>>)
                IN  /\ conflictResolver' = resolution.resolver
                    /\ localShapes' =
                          IF resolution.action = "KEEP_LOCAL" THEN localShapes
                          ELSE [localShapes EXCEPT ![sid] = Spread(@, resolution.shape)]
                    /\ handled' = Append(handled,
                          [event |-> event, localClock |-> conflictResolver.vectorClock,
                           localShape |-> localShapes[sid],
                           action |-> resolution.action, shape |-> resolution.shape])
           ELSE /\ conflictResolver' = conflictResolver
                /\ localShapes' = ApplyPlain(localShapes, event)
                /\ handled' = Append(handled,
                      [event |-> event, localClock |-> conflictResolver.vectorClock,
                       action |-> "NONE"])
    /\ UNCHANGED <<args, result>>
    /\ UNCHANGED <<storeVars, wsVars, syncVars>>

\* SyncService.init; the canvas is empty or holds S1
ClientInit ==
    /\ StoreInit
    /\ NoSockets
    /\ NoSync
    /\ conflictResolver = NewResolver("A")
    /\ localShapes \in {EmptyObj, [i \in {"S1"} |-> BaseShape]}
    /\ handled = <<>>
    /\ args = EmptyObj
    /\ result = EmptyObj

ClientNext ==
    \/ \E properties \in LocalEdits, t \in LocalTimes : UpdateShape(properties, t)
    \/ \E event \in RemoteEvents : ApplyRemoteEvent(event)

SpecClient == ClientInit /\ [][ClientNext]_vars

-----------------------------------------------------------------------------
(* Calls of the pure functions of conflictResolution.js, one set of arguments    *)
(* per behaviour.                                                                *)

ClockArgs == [fn : {"clock"}, a : Clocks, b : Clocks, c : Clocks]

PropKeys == {"strokeColor", "strokeWidth"}

\* property maps over some of the keys; the value names the side it comes from
SideProps(v) == UNION {[D -> {v}] : D \in SUBSET PropKeys}

TimestampMaps == UNION {[D -> {1000, 1001}] : D \in SUBSET PropKeys}

MergeArgs ==
    [fn : {"props"}, baseProps : SideProps("base"), localProps : SideProps("local"),
     remoteProps : SideProps("remote"), localTimestamps : TimestampMaps,
     remoteTimestamps : TimestampMaps]

CallHappenedBefore ==
    /\ args.fn = "clock"
    /\ result' = [op |-> "happenedBefore",
                  aa |-> happenedBefore(args.a, args.a),
                  ab |-> happenedBefore(args.a, args.b),
                  ba |-> happenedBefore(args.b, args.a),
                  bc |-> happenedBefore(args.b, args.c),
                  ac |-> happenedBefore(args.a, args.c)]
    /\ UNCHANGED <<storeVars, wsVars, syncVars, conflictResolver, localShapes, handled, args>>

CallIsConcurrent ==
    /\ args.fn = "clock"
    /\ result' = [op |-> "isConcurrent",
                  ab |-> isConcurrent(args.a, args.b),
                  ba |-> isConcurrent(args.b, args.a)]
    /\ UNCHANGED <<storeVars, wsVars, syncVars, conflictResolver, localShapes, handled, args>>

CallMerge ==
    /\ args.fn = "clock"
    /\ result' = [op |-> "merge",
                  ab |-> merge(args.a, args.b),
                  ba |-> merge(args.b, args.a),
                  aa |-> merge(args.a, args.a),
                  ab_c |-> merge(merge(args.a, args.b), args.c),
                  a_bc |-> merge(args.a, merge(args.b, args.c))]
    /\ UNCHANGED <<storeVars, wsVars, syncVars, conflictResolver, localShapes, handled, args>>

CallMergeShapeProperties ==
    /\ args.fn = "props"
    /\ result' = [op |-> "mergeShapeProperties",
                  merged |-> mergeShapeProperties(args.baseProps, args.localProps,
                                 args.remoteProps, args.localTimestamps,
                                 args.remoteTimestamps)]
    /\ UNCHANGED <<storeVars, wsVars, syncVars, conflictResolver, localShapes, handled, args>>

PureInit ==
    /\ StoreInit
    /\ NoSockets
    /\ NoSync
    /\ conflictResolver = EmptyObj
    /\ localShapes = EmptyObj
    /\ handled = <<>>
    /\ args \in ClockArgs \cup MergeArgs
    /\ result = EmptyObj

PureNext ==
    \/ CallHappenedBefore
    \/ CallIsConcurrent
    \/ CallMerge
    \/ CallMergeShapeProperties

SpecPure == PureInit /\ [][PureNext]_vars

-----------------------------------------------------------------------------
(* The client's SyncService with its IndexedDB queue and its WebSocket; the      *)
(* server is the store, called as handleShapeEvent and handleBatchSync call it.  *)

InsertAt(rows, pos, row) ==
    SubSeq(rows, 1, pos - 1) \o <<row>> \o SubSeq(rows, pos, Len(rows))

\* db.add('pendingEvents', {...event, timestamp: Date.now()}): the object store keeps
\* its records in the order of their keys (localEventId, a uuid), so the new record
\* takes the place `pos`
addPendingEvent(store, event, t, pos) ==
    InsertAt(store, pos, [event EXCEPT !.timestamp = t])

\* events.sort((a, b) => a.timestamp - b.timestamp), a stable sort
RECURSIVE SortByTimestamp(_)
SortByTimestamp(rows) ==
    IF rows = <<>> THEN <<>>
    ELSE LET least == CHOOSE n \in DOMAIN rows :
                         \A m \in DOMAIN rows :
                            rows[n].timestamp < rows[m].timestamp
                            \/ (rows[n].timestamp = rows[m].timestamp /\ n <= m)
             rest == [m \in 1..(Len(rows) - 1) |->
                         IF m < least THEN rows[m] ELSE rows[m + 1]]
         IN  <<rows[least]>> \o SortByTimestamp(rest)

\* (variant: the records as the index returns them, not sorted)
getPendingEventsInKeyOrder(store, canvasId) ==
    SelectSeq(store, LAMBDA e : e.canvasId = canvasId)

\* getAllFromIndex('pendingEvents', 'canvasId', canvasId), sorted by timestamp
getPendingEvents(store, canvasId) ==
    SortByTimestamp(SelectSeq(store, LAMBDA e : e.canvasId = canvasId))

\* the transaction of clearPendingEvents: tx.store.delete(event.localEventId) for
\* each of the events its getPendingEvents(canvasId) returned
clearPendingEvents(store, read) ==
    SelectSeq(store, LAMBDA e : e.localEventId \notin {read[n].localEventId : n \in DOMAIN read})

\* navigator.onLine && this.isOnline && websocket.isReady()
canSendOnline == syncService.isOnline /\ syncService.wsReady

\* the event object _sendEvent builds
LocalEvent(ev) ==
    [localEventId |-> ev.localEventId, canvasId |-> syncService.canvasId,
     eventType |-> ev.eventType, shapeId |-> ev.shapeId, payload |-> ev.payload,
     timestamp |-> now, userId |-> syncService.userId]

NewTask(kind, pc) ==
    [kind |-> kind, pc |-> pc, event |-> EmptyObj, call |-> 0, lost |-> FALSE,
     synced |-> FALSE, version |-> 0, batch |-> <<>>, read |-> <<>>,
     outcome |-> "none"]

\* the local event ids the client has generated (uuids are not reused)
UsedLocalIds ==
    {tasks[t].event.localEventId : t \in {u \in DOMAIN tasks : tasks[u].kind = "queueEvent"}}
    \cup {pendingEvents[n].localEventId : n \in DOMAIN pendingEvents}

\* the uuid sendShapeEvent draws for the localEventId of its SHAPE_EVENT message
Uuids == <<"U1", "U2", "U3", "U4">>

\* queueEvent / _sendEvent up to its first await: a kind that is not stored returns
\* null; online, websocket.sendShapeEvent sends SHAPE_EVENT (the server calls
\* storeEvent); otherwise the event goes to IndexedDB
QueueEvent(ev) ==
    /\ Len(tasks) < MaxOps
    /\ ev.localEventId \notin UsedLocalIds
    /\ LET task == [NewTask("queueEvent", "done") EXCEPT !.event = LocalEvent(ev)]
       IN  IF ~shouldStoreEvent(ev.eventType)
           THEN /\ tasks' = Append(tasks, [task EXCEPT !.outcome = "null"])
                /\ UNCHANGED <<pendingEvents, calls>>
           ELSE IF canSendOnline
           THEN /\ calls' = Append(calls,
                       BeginStoreEvent(syncService.canvasId,
                                       [ev EXCEPT !.userId = syncService.userId,
                                                  !.localEventId = Uuids[Len(tasks) + 1]]))
                /\ tasks' = Append(tasks,
                       [task EXCEPT !.pc = "awaitAck", !.call = Len(calls) + 1])
                /\ UNCHANGED pendingEvents
           ELSE /\ \E pos \in 1..(Len(pendingEvents) + 1) :
                       pendingEvents' = addPendingEvent(pendingEvents, task.event, now, pos)
                /\ tasks' = Append(tasks, [task EXCEPT !.outcome = "queued"])
                /\ UNCHANGED calls
    /\ UNCHANGED <<canvases, events, shapes, now, nextId, syncService>>
    /\ UNCHANGED <<wsVars, conflictResolver, localShapes, handled, args, result>>

\* EVENT_ACK arrives: lastKnownVersion = ack.version, { ...event, synced: true, version }
AckArrives(t) ==
    /\ t \in DOMAIN tasks
    /\ tasks[t].pc = "awaitAck"
    /\ ~tasks[t].lost
    /\ calls[tasks[t].call].pc = "returned"
    /\ LET ack == calls[tasks[t].call].storedEvents[1]
       IN  /\ syncService' = [syncService EXCEPT !.lastKnownVersion = ack.version]
           /\ tasks' = [tasks EXCEPT ![t].pc = "done", ![t].synced = TRUE,
                                     ![t].version = ack.version, ![t].outcome = "acked"]
    /\ UNCHANGED <<storeVars, pendingEvents>>
    /\ UNCHANGED <<wsVars, conflictResolver, localShapes, handled, args, result>>

\* (variant: the catch block returns without storing the event)
AckTimeoutDrop(t) ==
    /\ t \in DOMAIN tasks
    /\ tasks[t].pc = "awaitAck"
    /\ tasks' = [tasks EXCEPT ![t].pc = "done", ![t].outcome = "queued"]
    /\ UNCHANGED <<storeVars, pendingEvents, syncService>>
    /\ UNCHANGED <<wsVars, conflictResolver, localShapes, handled, args, result>>

\* the 5 s timer of sendShapeEvent rejects: the catch block falls through to
\* indexedDb.addPendingEvent, { ...event, synced: false }
AckTimeout(t) ==
    /\ t \in DOMAIN tasks
    /\ tasks[t].pc = "awaitAck"
    /\ \E pos \in 1..(Len(pendingEvents) + 1) :
          pendingEvents' = addPendingEvent(pendingEvents, tasks[t].event, now, pos)
    /\ tasks' = [tasks EXCEPT ![t].pc = "done", ![t].outcome = "queued"]
    /\ UNCHANGED <<storeVars, syncService>>
    /\ UNCHANGED <<wsVars, conflictResolver, localShapes, handled, args, result>>

\* syncPendingEvents up to the await of indexedDb.getPendingEvents
SyncBegin ==
    /\ Len(tasks) < MaxOps
    /\ ~syncService.isSyncing
    /\ canSendOnline
    /\ tasks' = Append(tasks, NewTask("sync", "read"))
    /\ UNCHANGED <<storeVars, pendingEvents, syncService>>
    /\ UNCHANGED <<wsVars, conflictResolver, localShapes, handled, args, result>>

\* the events of the BATCH_SYNC message, as the server hands them to storeBatchEvents
BatchOf(pending) ==
    [n \in DOMAIN pending |->
        [localEventId |-> pending[n].localEventId, userId |-> syncService.userId,
         eventType |-> pending[n].eventType, shapeId |-> pending[n].shapeId,
         payload |-> pending[n].payload, timestamp |-> pending[n].timestamp]]

\* the pending events are read: none, return; otherwise isSyncing = true and
\* websocket.batchSync sends BATCH_SYNC if the socket is open (the server calls
\* storeBatchEvents)
SyncSend(t) ==
    /\ t \in DOMAIN tasks
    /\ tasks[t].pc = "read"
    /\ LET pending == getPendingEvents(pendingEvents, syncService.canvasId)
       IN  IF pending = <<>>
           THEN /\ tasks' = [tasks EXCEPT ![t].pc = "done", ![t].outcome = "nothing"]
                /\ UNCHANGED <<calls, syncService>>
           ELSE /\ syncService' = [syncService EXCEPT !.isSyncing = TRUE]
                /\ IF syncService.wsReady
                   THEN /\ calls' = Append(calls,
                              BeginStoreBatch(syncService.canvasId, BatchOf(pending)))
                        /\ tasks' = [tasks EXCEPT ![t].pc = "awaitResult",
                                                  ![t].batch = BatchOf(pending),
                                                  ![t].call = Len(calls) + 1]
                   ELSE /\ tasks' = [tasks EXCEPT ![t].pc = "awaitResult",
                                                  ![t].batch = BatchOf(pending)]
                        /\ UNCHANGED calls
    /\ UNCHANGED <<canvases, events, shapes, now, nextId, pendingEvents>>
    /\ UNCHANGED <<wsVars, conflictResolver, localShapes, handled, args, result>>

\* BATCH_SYNC_RESULT arrives: every handler batchSync has registered takes it;
\* success resolves (currentState.version, read by the server after the batch was
\* stored, is kept for the update of lastKnownVersion), success = false rejects
BatchResult(t) ==
    /\ t \in DOMAIN tasks
    /\ tasks[t].pc = "awaitResult"
    /\ tasks[t].call # 0
    /\ ~tasks[t].lost
    /\ Finished(calls[tasks[t].call])
    /\ IF calls[tasks[t].call].pc = "returned"
       THEN /\ \E v \in 1..MaxVersion(events, syncService.canvasId) :
                  /\ \A n \in DOMAIN calls[tasks[t].call].storedEvents :
                        calls[tasks[t].call].storedEvents[n].version <= v
                  /\ tasks' = [u \in DOMAIN tasks |->
                                  IF tasks[u].pc = "awaitResult"
                                  THEN [tasks[u] EXCEPT !.pc = "clear", !.version = v]
                                  ELSE tasks[u]]
            /\ UNCHANGED syncService
       ELSE /\ tasks' = [u \in DOMAIN tasks |->
                            IF tasks[u].pc = "awaitResult"
                            THEN [tasks[u] EXCEPT !.pc = "done", !.outcome = "failed"]
                            ELSE tasks[u]]
            /\ syncService' = [syncService EXCEPT !.isSyncing = FALSE]
    /\ UNCHANGED <<storeVars, pendingEvents>>
    /\ UNCHANGED <<wsVars, conflictResolver, localShapes, handled, args, result>>

\* the 60 s timer of batchSync rejects: syncError, isSyncing = false
BatchTimeout(t) ==
    /\ t \in DOMAIN tasks
    /\ tasks[t].pc = "awaitResult"
    /\ tasks' = [tasks EXCEPT ![t].pc = "done", ![t].outcome = "failed"]
    /\ syncService' = [syncService EXCEPT !.isSyncing = FALSE]
    /\ UNCHANGED <<storeVars, pendingEvents>>
    /\ UNCHANGED <<wsVars, conflictResolver, localShapes, handled, args, result>>

\* after a successful batchSync, indexedDb.clearPendingEvents(this.canvasId) up to
\* its await of getPendingEvents
ClearRead(t) ==
    /\ t \in DOMAIN tasks
    /\ tasks[t].pc = "clear"
    /\ tasks' = [tasks EXCEPT ![t].pc = "delete",
                    ![t].read = getPendingEvents(pendingEvents, syncService.canvasId)]
    /\ UNCHANGED <<storeVars, pendingEvents, syncService>>
    /\ UNCHANGED <<wsVars, conflictResolver, localShapes, handled, args, result>>

\* the delete transaction of clearPendingEvents, then
\* lastKnownVersion = result.currentState.version and isSyncing = false
ClearPending(t) ==
    /\ t \in DOMAIN tasks
    /\ tasks[t].pc = "delete"
    /\ pendingEvents' = clearPendingEvents(pendingEvents, tasks[t].read)
    /\ syncService' = [syncService EXCEPT !.isSyncing = FALSE,
                                          !.lastKnownVersion = tasks[t].version]
    /\ tasks' = [tasks EXCEPT ![t].pc = "done", ![t].outcome = "synced"]
    /\ UNCHANGED storeVars
    /\ UNCHANGED <<wsVars, conflictResolver, localShapes, handled, args, result>>

\* window 'online' / 'offline'
HandleOnline ==
    /\ ~syncService.isOnline
    /\ syncService' = [syncService EXCEPT !.isOnline = TRUE]
    /\ UNCHANGED <<storeVars, pendingEvents, tasks>>
    /\ UNCHANGED <<wsVars, conflictResolver, localShapes, handled, args, result>>

HandleOffline ==
    /\ syncService.isOnline
    /\ syncService' = [syncService EXCEPT !.isOnline = FALSE]
    /\ UNCHANGED <<storeVars, pendingEvents, tasks>>
    /\ UNCHANGED <<wsVars, conflictResolver, localShapes, handled, args, result>>

\* ws.onopen (after the reconnect has joined the canvas again)
WsOpen ==
    /\ ~syncService.wsReady
    /\ syncService' = [syncService EXCEPT !.wsReady = TRUE]
    /\ UNCHANGED <<storeVars, pendingEvents, tasks>>
    /\ UNCHANGED <<wsVars, conflictResolver, localShapes, handled, args, result>>

\* ws.onclose: what the server sends to the closed socket never arrives
WsClose ==
    /\ syncService.wsReady
    /\ syncService' = [syncService EXCEPT !.wsReady = FALSE]
    /\ tasks' = [t \in DOMAIN tasks |->
                    IF tasks[t].pc \in {"awaitAck", "awaitResult"}
                    THEN [tasks[t] EXCEPT !.lost = TRUE] ELSE tasks[t]]
    /\ UNCHANGED <<storeVars, pendingEvents>>
    /\ UNCHANGED <<wsVars, conflictResolver, localShapes, handled, args, result>>

\* events left in IndexedDB by an earlier session: two of canvas C1, the older one
\* with the greater key, and one of canvas C2
PersistedEvents ==
    << [localEventId |-> "P1", canvasId |-> "C1", eventType |-> "SHAPE_CREATED",
        shapeId |-> "S1", payload |-> PCreateRect, timestamp |-> 900, userId |-> "A"],
       [localEventId |-> "P2", canvasId |-> "C2", eventType |-> "SHAPE_CREATED",
        shapeId |-> "S2", payload |-> PCreateCircle, timestamp |-> 850, userId |-> "A"],
       [localEventId |-> "P3", canvasId |-> "C1", eventType |-> "POINTER_DOWN",
        shapeId |-> NoShape, payload |-> PPointer, timestamp |-> 800, userId |-> "A"] >>

\* the events the user produces
ClientEvents == {ECreate2, EMove, EDragMove}

OfflineInit ==
    /\ StoreInit
    /\ NoSockets
    /\ conflictResolver = EmptyObj
    /\ localShapes = EmptyObj
    /\ handled = <<>>
    /\ args = EmptyObj
    /\ result = EmptyObj
    /\ pendingEvents \in {<<>>, PersistedEvents}
    /\ syncService \in [canvasId : {"C1"}, userId : {"A"}, isOnline : {TRUE},
                        wsReady : BOOLEAN, isSyncing : {FALSE}, lastKnownVersion : {0}]
    /\ tasks = <<>>

OfflineNext ==
    \/ \E ev \in ClientEvents : QueueEvent(ev)
    \/ \E t \in 1..MaxOps : AckArrives(t)
    \/ \E t \in 1..MaxOps : AckTimeout(t)
    \/ SyncBegin
    \/ \E t \in 1..MaxOps : SyncSend(t)
    \/ \E t \in 1..MaxOps : BatchResult(t)
    \/ \E t \in 1..MaxOps : BatchTimeout(t)
    \/ \E t \in 1..MaxOps : ClearRead(t)
    \/ \E t \in 1..MaxOps : ClearPending(t)
    \/ HandleOnline
    \/ HandleOffline
    \/ WsOpen
    \/ WsClose
    \/ TxnStep

\* the timers of sendShapeEvent fire
SpecOffline ==
    OfflineInit /\ [][OfflineNext]_vars /\ \A t \in 1..MaxOps : WF_vars(AckTimeout(t))

-----------------------------------------------------------------------------
(* Properties *)

EventsOf(canvasId) == SelectSeq(events, LAMBDA e : e.canvas_id = canvasId)

\* C1: with the calls of storeEvent / storeBatchEvents run one after the other, the
\* stored events of every canvas carry, in commit order, the versions 1, 2, ..., n:
\* the first gets 1, each later one the previous maximum plus 1, no gap, no reuse.
C1_VersionsDense ==
    \A c \in Canvases :
        \A n \in 1..Len(EventsOf(c)) : EventsOf(c)[n].version = n

\* C1 witness: both storeEvent and storeBatchEvents have stored events on C1, and the
\* canvas holds at least three events
C1_Witness ==
    /\ Len(EventsOf("C1")) >= 3
    /\ \E k \in DOMAIN calls :
          /\ calls[k].op = "storeEvent" /\ calls[k].pc = "returned"
          /\ calls[k].canvasId = "C1" /\ calls[k].inserts # <<>>
    /\ \E k \in DOMAIN calls :
          /\ calls[k].op = "storeBatchEvents" /\ calls[k].pc = "returned"
          /\ Len(calls[k].inserts) >= 2

(* The projection rules of section 4.D.1, as a fold over the log of one canvas.  *)
(* A projected shape is [type, properties, zIndex, deleted].                     *)
RuleApply(st, e) ==
    LET sid == e.shape_id
        p == e.payload
    IN  CASE e.event_type = "SHAPE_CREATED" ->
                Spread(st, [s \in {sid} |->
                    [type |-> TypeOf(p), properties |-> PropsOrSelf(p),
                     z_index |-> ZIndexOf(p), deleted_at |-> 0]])
          [] e.event_type = "SHAPE_EDITED" /\ sid \in DOMAIN st ->
                [st EXCEPT ![sid].properties = Spread(st[sid].properties, PropsOrSelf(p))]
          [] e.event_type = "SHAPE_MOVED" /\ sid \in DOMAIN st ->
                [st EXCEPT ![sid].properties =
                    Spread(st[sid].properties,
                           [x |-> PositionOf(p).x, y |-> PositionOf(p).y])]
          [] e.event_type = "DRAG_END" /\ sid \in DOMAIN st /\ Has(p, "endPosition") ->
                [st EXCEPT ![sid].properties =
                    Spread(st[sid].properties,
                           [x |-> p.endPosition.x, y |-> p.endPosition.y])]
          [] e.event_type = "SHAPE_DELETED" /\ sid \in DOMAIN st ->
                [st EXCEPT ![sid].deleted_at = 1]
          [] OTHER -> st

RECURSIVE FoldLeft(_, _)
FoldLeft(st, rows) ==
    IF rows = <<>> THEN st ELSE FoldLeft(RuleApply(st, Head(rows)), Tail(rows))

FoldShapes(canvasId) ==
    LET st == FoldLeft(EmptyObj, getEventsSinceVersion(canvasId, 0))
    IN  SortShapes(st, {s \in DOMAIN st : st[s].deleted_at = 0})

\* C3: for every canvas the shapes getCanvasState returns are the left fold, in
\* version order, of getEventsSinceVersion(canvas, 0) under the 4.D.1 rules.
C3_ProjectionIsFold ==
    \A c \in Canvases : getCanvasState(c).shapes = FoldShapes(c)

\* C2: under interleaved storeEvent / storeBatchEvents transactions no two committed
\* events of one canvas carry the same version.
C2_NoDuplicateVersion ==
    \A n, m \in DOMAIN events :
        (n # m /\ events[n].canvas_id = events[m].canvas_id)
            => events[n].version # events[m].version

CallOf(ev) == {k \in DOMAIN calls : calls[k].op = "storeEvent" /\ calls[k].evs = <<ev>>}

\* C10: the base shape S1 exists; clients A and B each edit a different key of it
\* (strokeColor by A, strokeWidth by B), both payloads carrying a vector clock and
\* property timestamps, and both edits are stored against the existing shape.  Once
\* all three calls have returned, the projected shape holds both new values.
C10_DisjointEditsMerge ==
    ( /\ Len(calls) = 3
      /\ \A k \in DOMAIN calls : calls[k].pc = "returned"
      /\ CallOf(ECreate1) # {} /\ CallOf(EEditColor) # {} /\ CallOf(EEditWidth) # {}
      /\ \A k \in CallOf(EEditColor) \cup CallOf(EEditWidth) : Len(calls[k].conflict) > 0 )
    => /\ "S1" \in DOMAIN shapes
       /\ shapes["S1"].properties.strokeColor = "#f00"
       /\ shapes["S1"].properties.strokeWidth = 5


(* Fan-out, acknowledgement and ordering over the sockets' received messages.    *)

\* how many SHAPE_EVENT messages for the stored event eventId socket w has received
Delivered(w, eventId) ==
    Cardinality({n \in DOMAIN inbox[w] :
                    inbox[w][n].type = "SHAPE_EVENT" /\ inbox[w][n].eventId = eventId})

\* handlers whose store call has returned and whose response step has run
Answered(h) ==
    /\ handlers[h].pc = "done"
    /\ handlers[h].call # 0
    /\ calls[handlers[h].call].pc = "returned"

CommittedIds(h) ==
    {calls[handlers[h].call].inserts[n].id : n \in DOMAIN calls[handlers[h].call].inserts}

\* C4: once the handler of a SHAPE_EVENT or BATCH_SYNC message has finished, every
\* event it committed has been delivered as a SHAPE_EVENT exactly once to every other
\* open socket that was in the canvas's room at the commit (and has stayed), and
\* never to the originating socket.
C4_FanOutComplete ==
    \A h \in DOMAIN handlers :
        Answered(h) =>
            \A e \in CommittedIds(h) :
                /\ Delivered(handlers[h].ws, e) = 0
                /\ \A w \in (audience[e] \cap open) \ {handlers[h].ws} : Delivered(w, e) = 1

AnsweredShapeEvents(w) ==
    {h \in DOMAIN handlers :
        handlers[h].ws = w /\ handlers[h].msg.type = "SHAPE_EVENT" /\ Answered(h)}

\* the EVENT_ACK the store's outcome calls for: the row the call committed, or the
\* current version with stored false for a kind that is not stored
ExpectedAck(h) ==
    LET c == calls[handlers[h].call]
    IN  IF c.inserts # <<>>
        THEN [type |-> "EVENT_ACK", localEventId |-> handlers[h].msg.localEventId,
              eventId |-> c.inserts[1].id, version |-> c.inserts[1].version,
              stored |-> TRUE, hadConflict |-> c.conflict # <<>>]
        ELSE [type |-> "EVENT_ACK", localEventId |-> handlers[h].msg.localEventId,
              eventId |-> 0, version |-> c.version, stored |-> FALSE]

\* C5: a socket that is still open has received, for each of its SHAPE_EVENT messages
\* whose store succeeded, exactly one EVENT_ACK with the message's localEventId and
\* the store's eventId, version, stored and hadConflict, no other EVENT_ACK, and no
\* SHAPE_EVENT of its own user.
C5_AckOnly ==
    \A w \in open :
        /\ \A h \in AnsweredShapeEvents(w) :
              Cardinality({n \in DOMAIN inbox[w] : inbox[w][n] = ExpectedAck(h)})
                 = Cardinality({g \in AnsweredShapeEvents(w) : ExpectedAck(g) = ExpectedAck(h)})
        /\ Cardinality({n \in DOMAIN inbox[w] : inbox[w][n].type = "EVENT_ACK"})
              = Cardinality(AnsweredShapeEvents(w))
        /\ \A n \in DOMAIN inbox[w] :
              inbox[w][n].type = "SHAPE_EVENT" => inbox[w][n].userId # connInfo[w].userId

\* C5 witness: w1's SHAPE_EDITED, stored after a conflict was resolved, has been
\* acknowledged to w1 and broadcast to w2
C5_Witness ==
    \E h \in AnsweredShapeEvents("w1") :
        /\ "w1" \in open
        /\ calls[handlers[h].call].inserts # <<>>
        /\ calls[handlers[h].call].conflict # <<>>
        /\ \E n \in DOMAIN inbox["w1"] : inbox["w1"][n] = ExpectedAck(h)
        /\ Delivered("w2", calls[handlers[h].call].inserts[1].id) = 1

\* C6: a socket that has joined canvas c (its handlers have finished, it is still in
\* c) has, for every event another socket's finished handler committed on c, either a
\* CANVAS_STATE of c taken after the commit or a SHAPE_EVENT for that event.
C6_JoinSeesCommitted ==
    \A w \in open : \A c \in Canvases :
        ( /\ connInfo[w].canvasId = c
          /\ \A h \in DOMAIN handlers : handlers[h].ws = w => handlers[h].pc = "done"
          /\ \E h \in DOMAIN handlers :
                /\ handlers[h].ws = w
                /\ handlers[h].msg.type = "JOIN_CANVAS"
                /\ handlers[h].msg.canvasId = c )
        => \A g \in DOMAIN handlers :
              (handlers[g].ws # w /\ Answered(g) /\ calls[handlers[g].call].canvasId = c)
              => \A e \in CommittedIds(g) :
                    \/ \E n \in DOMAIN inbox[w] :
                          /\ inbox[w][n].type = "CANVAS_STATE"
                          /\ inbox[w][n].canvasId = c
                          /\ e \in inbox[w][n].seen
                    \/ Delivered(w, e) >= 1

CanvasOfEvent(eventId) ==
    events[CHOOSE n \in DOMAIN events : events[n].id = eventId].canvas_id

\* C7: in every socket's received messages, the SHAPE_EVENT messages for stored
\* events of one canvas appear in strictly increasing version order.
C7_BroadcastOrder ==
    \A w \in Sockets : \A i, j \in DOMAIN inbox[w] :
        ( /\ i < j
          /\ inbox[w][i].type = "SHAPE_EVENT" /\ inbox[w][i].eventId # 0
          /\ inbox[w][j].type = "SHAPE_EVENT" /\ inbox[w][j].eventId # 0
          /\ CanvasOfEvent(inbox[w][i].eventId) = CanvasOfEvent(inbox[w][j].eventId) )
        => inbox[w][i].version < inbox[w][j].version

\* C8: when one socket's storable SHAPE_EVENT e1 arrived before its SHAPE_EVENT e2 on
\* the same canvas and both are stored, e1 has the smaller version and no socket has
\* received e2 before e1.
C8_SenderOrder ==
    \A h1, h2 \in DOMAIN handlers :
        ( /\ h1 < h2
          /\ handlers[h1].ws = handlers[h2].ws
          /\ handlers[h1].msg.type = "SHAPE_EVENT" /\ handlers[h2].msg.type = "SHAPE_EVENT"
          /\ Answered(h1) /\ Answered(h2)
          /\ calls[handlers[h1].call].inserts # <<>>
          /\ calls[handlers[h2].call].inserts # <<>>
          /\ calls[handlers[h1].call].canvasId = calls[handlers[h2].call].canvasId )
        => LET e1 == calls[handlers[h1].call].inserts[1]
               e2 == calls[handlers[h2].call].inserts[1]
           IN  /\ e1.version < e2.version
               /\ \A w \in Sockets : \A i, j \in DOMAIN inbox[w] :
                     ( /\ inbox[w][i].type = "SHAPE_EVENT" /\ inbox[w][i].eventId = e2.id
                       /\ inbox[w][j].type = "SHAPE_EVENT" /\ inbox[w][j].eventId = e1.id )
                     => j < i

\* the localEventId the client gave the n-th event a call inserted
StorableOf(evs) == SelectSeq(evs, LAMBDA e : shouldStoreEvent(e.eventType))

\* (canvas, localEventId, call, position) of every committed event
CommittedLocalIds ==
    UNION {{<<calls[k].canvasId, StorableOf(calls[k].evs)[n].localEventId, k, n>> :
               n \in DOMAIN calls[k].inserts} :
           k \in {j \in DOMAIN calls : calls[j].pc = "returned"}}

\* C9: the log holds at most one committed event per (canvasId, localEventId).
C9_OneEventPerLocalId ==
    \A a, b \in CommittedLocalIds :
        (a[1] = b[1] /\ a[2] = b[2]) => a = b


\* C11: the base shape S1 is stored first, then the edit of A (strokeColor) and the
\* edit of B (strokeWidth) arrive in either order, each with its vector clock and
\* property timestamps.  Once both are stored the version has advanced by exactly 2
\* and the edit that arrived first was stored with hadConflict = FALSE.
C11_FirstEditNoConflict ==
    ( /\ Len(calls) = 3
      /\ \A k \in DOMAIN calls : calls[k].pc = "returned" /\ calls[k].canvasId = "C1"
      /\ calls[1].evs = <<ECreate1>>
      /\ {calls[2].evs, calls[3].evs} = {<<EEditColor>>, <<EEditWidth>>} )
    => /\ calls[3].storedEvents[1].version = calls[1].storedEvents[1].version + 2
       /\ calls[2].storedEvents[1].hadConflict = FALSE


(* The client's resolver.                                                        *)

\* a happened-before b, by components (absent keys read as 0)
Before(a, b) ==
    /\ \A n \in Nodes : get(a, n) <= get(b, n)
    /\ \E n \in Nodes : get(a, n) < get(b, n)

\* the remote events the resolver was asked about
Resolved == {n \in DOMAIN handled : handled[n].action # "NONE"}

\* C12: whenever the resolver compared a local clock A with a remote event whose
\* clock B satisfies A happened-before B, it did not answer KEEP_LOCAL.
C12_CausalitySound ==
    \A n \in Resolved :
        Before(handled[n].localClock, RemoteClockOf(handled[n].event))
        => handled[n].action # "KEEP_LOCAL"

\* C12 witness: the local clock, advanced by a local edit, happened before the clock
\* of a remote edit, which was applied
C12_Witness ==
    \E n \in Resolved :
        /\ get(handled[n].localClock, "A") >= 1
        /\ Before(handled[n].localClock, RemoteClockOf(handled[n].event))
        /\ handled[n].action = "APPLY_REMOTE"

\* C13: the resolver answers KEEP_LOCAL with the shape unchanged exactly when the
\* remote clock happened before the local one, APPLY_REMOTE with the remote payload's
\* properties exactly when the local clock happened before the remote one, and MERGE
\* in every other case; equal clocks and a remote event without a vector clock are
\* answered MERGE.
C13_ResolverDecision ==
    \A n \in Resolved :
        LET h == handled[n]
            remote == RemoteClockOf(h.event)
        IN  /\ h.action = "KEEP_LOCAL" <=> Before(remote, h.localClock)
            /\ h.action = "KEEP_LOCAL" => h.shape = h.localShape
            /\ h.action = "APPLY_REMOTE" <=> Before(h.localClock, remote)
            /\ h.action = "APPLY_REMOTE" => h.shape = h.event.payload.properties
            /\ h.action = "MERGE" <=>
                  (~Before(remote, h.localClock) /\ ~Before(h.localClock, remote))
            /\ (\A node \in Nodes : get(remote, node) = get(h.localClock, node))
                  => h.action = "MERGE"
            /\ ~Has(h.event, "vectorClock") => h.action = "MERGE"


Returned(op) == "op" \in DOMAIN result /\ result.op = op

\* C14: mergeShapeProperties gives, for a key present on both sides, the local value
\* iff the local timestamp of the key is greater than the remote one (a tie or missing
\* timestamps: the remote value); for a key on one side only, that side's value; for a
\* key on neither side, the base value (absent when the base has none).
C14_MergeRule ==
    Returned("mergeShapeProperties") =>
        \A key \in PropKeys :
            LET inLocal == key \in DOMAIN args.localProps
                inRemote == key \in DOMAIN args.remoteProps
                localTime == NumOr0(args.localTimestamps, key)
                remoteTime == NumOr0(args.remoteTimestamps, key)
                merged == result.merged
            IN  /\ (inLocal /\ inRemote) =>
                      /\ key \in DOMAIN merged
                      /\ merged[key] = (IF localTime > remoteTime THEN "local" ELSE "remote")
                /\ (inLocal /\ ~inRemote) => (key \in DOMAIN merged /\ merged[key] = "local")
                /\ (~inLocal /\ inRemote) => (key \in DOMAIN merged /\ merged[key] = "remote")
                /\ (~inLocal /\ ~inRemote) =>
                      IF key \in DOMAIN args.baseProps
                      THEN key \in DOMAIN merged /\ merged[key] = "base"
                      ELSE key \notin DOMAIN merged

\* C14 witness: a key edited on both sides with equal timestamps went to the remote
\* value while another key kept the base value
C14_Witness ==
    /\ Returned("mergeShapeProperties")
    /\ "strokeColor" \in (DOMAIN args.localProps) \cap (DOMAIN args.remoteProps)
    /\ NumOr0(args.localTimestamps, "strokeColor") = 1001
    /\ NumOr0(args.remoteTimestamps, "strokeColor") = 1001
    /\ result.merged["strokeColor"] = "remote"
    /\ "strokeWidth" \notin (DOMAIN args.localProps) \cup (DOMAIN args.remoteProps)
    /\ "strokeWidth" \in DOMAIN args.baseProps
    /\ result.merged["strokeWidth"] = "base"

\* C15: happenedBefore(a, b) is exactly "every component of a <= b's and one strictly
\* less" with absent keys read as 0; it is irreflexive, asymmetric and transitive;
\* isConcurrent(a, b) is exactly "neither happened before the other", and symmetric.
C15_HappenedBefore ==
    /\ Returned("happenedBefore") =>
          /\ result.ab = Before(args.a, args.b)
          /\ ~result.aa
          /\ ~(result.ab /\ result.ba)
          /\ (result.ab /\ result.bc) => result.ac
    /\ Returned("isConcurrent") =>
          /\ result.ab = (~Before(args.a, args.b) /\ ~Before(args.b, args.a))
          /\ result.ab = result.ba

\* C15 witness: a chain a before b before c over clocks with different key sets
C15_Witness ==
    /\ Returned("happenedBefore")
    /\ result.ab /\ result.bc /\ result.ac
    /\ DOMAIN args.a # DOMAIN args.b
    /\ DOMAIN args.b # DOMAIN args.c


\* VectorClock.merge is the pointwise maximum: commutative, associative, idempotent
MergeIsPointwiseMax ==
    Returned("merge") =>
        /\ \A n \in Nodes : get(result.ab, n) = Max(get(args.a, n), get(args.b, n))
        /\ DOMAIN result.ab = (DOMAIN args.a) \cup (DOMAIN args.b)
        /\ result.ab = result.ba
        /\ result.ab_c = result.a_bc
        /\ result.aa = args.a

\* no step of the client lowers a component of its vector clock
ClockNeverLowered ==
    [][\A n \in Nodes :
          get(conflictResolver'.vectorClock, n) >= get(conflictResolver.vectorClock, n)]_vars

\* C16: once the client has handled a remote event that carries a vector clock, the
\* client's clock is pointwise >= that remote clock.
C16_ClockAbsorbsRemote ==
    \A k \in DOMAIN handled :
        Has(handled[k].event, "vectorClock") =>
            \A n \in Nodes :
                get(conflictResolver.vectorClock, n) >= get(handled[k].event.vectorClock, n)


\* C17: a room whose user list is empty has no entry in canvasRooms.
C17_RoomLifecycle ==
    \A c \in DOMAIN canvasRooms : getCanvasUsers(Node, c) # {}

RoomsOf(w) == {c \in DOMAIN canvasRooms : w \in canvasRooms[c]}

\* C18: a live connection is a member of at most one room, and it is a member of room
\* c exactly when its connInfo.canvasId is c.
C18_OneRoomPerConnection ==
    \A w \in connections :
        /\ Cardinality(RoomsOf(w)) <= 1
        /\ RoomsOf(w) = {connInfo[w].canvasId} \ {NoCanvas}


NotStorable(ev) == ev.eventType \notin STORED_EVENT_TYPES

StorableCount(evs) == Cardinality({n \in DOMAIN evs : ~NotStorable(evs[n])})

LastCall == calls[Len(calls)]

\* what a finished call of the write API shows when kinds outside the stored set are
\* involved
NonStorableResult ==
    /\ \A k \in DOMAIN calls :
          (calls[k].op = "storeEvent" /\ NotStorable(calls[k].evs[1])) =>
              /\ calls[k].pc # "threw"
              /\ calls[k].inserts = <<>>
              /\ calls[k].writes = EmptyObj
              /\ calls[k].pc = "returned" =>
                    /\ Len(calls[k].storedEvents) = 1
                    /\ calls[k].storedEvents[1].stored = FALSE
                    /\ calls[k].storedEvents[1].eventId = 0
                    /\ calls[k].storedEvents[1].eventType = calls[k].evs[1].eventType
    /\ (Len(calls) > 0 /\ LastCall.pc = "returned") =>
          /\ (LastCall.op = "storeEvent" /\ NotStorable(LastCall.evs[1])) =>
                LastCall.storedEvents[1].version = MaxVersion(events, LastCall.canvasId)
          /\ LastCall.op = "storeBatchEvents" =>
                /\ Len(LastCall.storedEvents) = StorableCount(LastCall.evs)
                /\ \A j \in DOMAIN LastCall.storedEvents :
                      /\ ~NotStorable(LastCall.storedEvents[j])
                      /\ LastCall.storedEvents[j].version =
                            MaxVersion(events, LastCall.canvasId)
                               - Len(LastCall.storedEvents) + j

\* a step of a storeEvent call with a kind outside the stored set changes neither
\* the log nor the shape rows
NonStorableFrame ==
    \A k \in DOMAIN calls' :
        ( /\ calls'[k].op = "storeEvent"
          /\ NotStorable(calls'[k].evs[1])
          /\ (k \notin DOMAIN calls \/ calls[k] # calls'[k]) )
        => (events' = events /\ shapes' = shapes /\ nextId' = nextId)

\* C19: storeEvent with a kind outside the stored set appends nothing, changes no
\* shape row and returns stored = false, eventId = null and the canvas's current
\* maximum version; storeBatchEvents skips such events without consuming a version.
C19_NonStorableNoEffect == []NonStorableResult /\ [][NonStorableFrame]_vars

\* C19 witness: a DRAG_MOVE returned version 1 on a canvas that holds one event, and a
\* batch with a skipped event has stored its two other events
C19_Witness ==
    /\ Len(calls) = 3
    /\ calls[2].op = "storeEvent" /\ NotStorable(calls[2].evs[1])
    /\ calls[2].pc = "returned"
    /\ calls[2].storedEvents[1].version = 1
    /\ LastCall.op = "storeBatchEvents" /\ LastCall.pc = "returned"
    /\ StorableCount(LastCall.evs) < Len(LastCall.evs)
    /\ Len(LastCall.storedEvents) = 2
    /\ LastCall.storedEvents[1].version = 2


\* the indices in the log of the events of shape s on canvas c
EventsOfShape(c, s) == {n \in DOMAIN events : events[n].canvas_id = c /\ events[n].shape_id = s}

\* the last event stored for shape s on canvas c is its delete
DeletedLast(c, s) ==
    /\ EventsOfShape(c, s) # {}
    /\ LET last == CHOOSE n \in EventsOfShape(c, s) : \A m \in EventsOfShape(c, s) : m <= n
       IN  events[last].event_type = "SHAPE_DELETED"

ShapeIdsOfState(c) ==
    {getCanvasState(c).shapes[n].id : n \in DOMAIN getCanvasState(c).shapes}

\* getEventsSinceVersion(c, 0) returns every event stored for the canvas
LogReadsBackWhole ==
    \A c \in Canvases :
        {getEventsSinceVersion(c, 0)[n] : n \in DOMAIN getEventsSinceVersion(c, 0)}
            = {events[n] : n \in {m \in DOMAIN events : events[m].canvas_id = c}}

\* the log only grows by appending
LogAppendOnly ==
    [][Len(events') >= Len(events) /\ SubSeq(events', 1, Len(events)) = events]_vars

\* the call that stored the delete has just returned: the shape is not in the state
DeleteJustStored ==
    (Len(calls) > 0 /\ LastCall.pc = "returned" /\ LastCall.op = "storeEvent"
       /\ LastCall.evs[1].eventType = "SHAPE_DELETED")
    => LastCall.evs[1].shapeId \notin ShapeIdsOfState(LastCall.canvasId)

\* C20: a shape whose last stored event on a canvas is SHAPE_DELETED is not in the
\* canvas state.
C20_DeletedShapeOmitted ==
    \A c \in Canvases, s \in ShapeIds : DeletedLast(c, s) => s \notin ShapeIdsOfState(c)


\* the indices in the log of the events of canvas c with a version above v
LaterEvents(c, v) == {n \in DOMAIN events : events[n].canvas_id = c /\ events[n].version > v}

\* C21: getEventsSinceVersion(c, v) returns exactly the stored events of canvas c with
\* version > v, each once, in ascending version order, and none of another canvas;
\* with v = 0 (the default) it returns the whole log of the canvas.
C21_EventsSince ==
    \A c \in Canvases, v \in 0..MaxCalls :
        LET rows == getEventsSinceVersion(c, v)
        IN  /\ {rows[n] : n \in DOMAIN rows} = {events[n] : n \in LaterEvents(c, v)}
            /\ Len(rows) = Cardinality(LaterEvents(c, v))
            /\ \A i, j \in DOMAIN rows : i < j => rows[i].version < rows[j].version
            /\ \A n \in DOMAIN rows : rows[n].canvas_id = c /\ rows[n].version > v
            /\ v = 0 => Len(rows) = Cardinality({n \in DOMAIN events : events[n].canvas_id = c})

\* C21 witness: canvas C1 holds versions 1 and 2, canvas C2 holds an event, and
\* getEventsSinceVersion(C1, 1) returns only version 2 of C1
C21_Witness ==
    /\ \E n \in DOMAIN events : events[n].canvas_id = "C2"
    /\ Cardinality(LaterEvents("C1", 0)) = 2
    /\ Len(getEventsSinceVersion("C1", 1)) = 1
    /\ getEventsSinceVersion("C1", 1)[1].version = 2
    /\ Len(getEventsSinceVersion("C1", 0)) = 2


\* applying the event throws whatever the shape rows are (a create without a type)
FailsToApply(ev) ==
    /\ ev.eventType = "SHAPE_CREATED"
    /\ applyThrows(EmptyObj, "C1", ev.eventType, ev.shapeId, ev.payload)

HasFailing(evs) == \E m \in DOMAIN evs : FailsToApply(evs[m])

FailingMessage(msg) ==
    \/ msg.type = "BATCH_SYNC" /\ HasFailing(msg.events)
    \/ msg.type = "SHAPE_EVENT" /\ FailsToApply(msg)

\* the transaction of a call with an event that cannot be applied never commits, and
\* once it has thrown the call holds no row and no stored event
FailedCallHoldsNothing ==
    \A k \in DOMAIN calls :
        HasFailing(calls[k].evs) =>
            /\ calls[k].pc \notin {"commit", "returned"}
            /\ calls[k].pc = "threw" =>
                  /\ calls[k].inserts = <<>>
                  /\ calls[k].writes = EmptyObj
                  /\ calls[k].storedEvents = <<>>

\* the log and the shape rows change only by the commit of a call all of whose events
\* can be applied
OnlyCommitsChangeStore ==
    (events' # events \/ shapes' # shapes) =>
        \E k \in DOMAIN calls :
            /\ calls[k].pc = "commit"
            /\ ~HasFailing(calls[k].evs)
            /\ events' = events \o calls[k].inserts
            /\ shapes' = Spread(shapes, calls[k].writes)

\* the handler of a message with such an event sends one message, to the sender, when
\* it ends (for a batch: BATCH_SYNC_RESULT with success = false), and nothing else
FailureReply ==
    \A h \in DOMAIN handlers' :
        ( /\ FailingMessage(handlers'[h].msg)
          /\ (h \notin DOMAIN handlers \/ handlers[h] # handlers'[h]) )
        => LET w == handlers'[h].ws
           IN  IF handlers'[h].pc = "done"
               THEN /\ \A v \in Sockets \ {w} : inbox'[v] = inbox[v]
                    /\ Len(inbox'[w]) = Len(inbox[w]) + 1
                    /\ SubSeq(inbox'[w], 1, Len(inbox[w])) = inbox[w]
                    /\ LET reply == inbox'[w][Len(inbox'[w])]
                       IN  IF handlers'[h].msg.type = "BATCH_SYNC"
                           THEN reply.type = "BATCH_SYNC_RESULT" /\ reply.success = FALSE
                           ELSE reply.type = "ERROR"
               ELSE inbox' = inbox

\* C22: a batch (or a single event) that fails to apply leaves no event in the log and
\* no shape row changed, the canvas version stays, the sender gets BATCH_SYNC_RESULT
\* with success = false, and no SHAPE_EVENT of it is broadcast.
C22_AllOrNothing ==
    /\ []FailedCallHoldsNothing
    /\ [][OnlyCommitsChangeStore]_vars
    /\ [][FailureReply]_vars

\* C22 witness: on a canvas that holds events, a batch whose second event cannot be
\* applied has been rolled back and answered with success = false
C22_Witness ==
    \E h \in DOMAIN handlers :
        /\ handlers[h].pc = "done"
        /\ handlers[h].msg.type = "BATCH_SYNC"
        /\ handlers[h].call # 0
        /\ calls[handlers[h].call].pc = "threw"
        /\ calls[handlers[h].call].i = 2
        /\ Len(events) >= 1
        /\ LET box == inbox[handlers[h].ws]
           IN  box # <<>> /\ box[Len(box)].type = "BATCH_SYNC_RESULT"
                          /\ box[Len(box)].success = FALSE


\* the last handler is a BATCH_SYNC that has ended with a stored batch
LastSync == handlers[Len(handlers)]

SyncEnded ==
    /\ handlers # <<>>
    /\ LastSync.msg.type = "BATCH_SYNC"
    /\ LastSync.pc = "done"
    /\ LastSync.call # 0
    /\ calls[LastSync.call].pc = "returned"

\* the BATCH_SYNC_RESULT of the last handler: the last message its sender was sent
SyncReply == inbox[LastSync.ws][Len(inbox[LastSync.ws])]

\* the version of the canvas before the batch: the events of the batch are the last
\* of the log
VersionBefore == MaxVersion(events, "C1") - Len(calls[LastSync.call].storedEvents)

\* what the answer holds apart from the shapes of currentState, which are compared
\* with the rows getCanvasState reads after the batch
BatchSyncContents ==
    SyncEnded =>
        LET k == LastSync.msg.lastKnownVersion
            m == VersionBefore
            sent == StorableOf(LastSync.msg.events)
            n == Len(sent)
            reply == SyncReply
        IN  m >= k =>
              /\ reply.type = "BATCH_SYNC_RESULT" /\ reply.success = TRUE
              /\ Len(reply.missedEvents) = m - k
              /\ \A j \in DOMAIN reply.missedEvents :
                    /\ reply.missedEvents[j].version = k + j
                    /\ reply.missedEvents[j] \in {events[q] : q \in DOMAIN events}
                    /\ reply.missedEvents[j].id \notin
                          {calls[LastSync.call].inserts[q].id :
                              q \in DOMAIN calls[LastSync.call].inserts}
              /\ Len(reply.storedEvents) = n
              /\ \A j \in DOMAIN reply.storedEvents :
                    /\ reply.storedEvents[j].version = m + j
                    /\ \E q \in DOMAIN events :
                          /\ events[q].id = reply.storedEvents[j].eventId
                          /\ events[q].version = m + j
                          /\ events[q].shape_id = sent[j].shapeId
                          /\ events[q].event_type = sent[j].eventType
              /\ reply.currentState.version = m + n
              /\ reply.currentState.shapes = getCanvasState("C1").shapes

\* C23: a BATCH_SYNC with n storable events and lastKnownVersion k on a canvas at
\* version m >= k, no other writer interleaving, answers with missedEvents = the
\* events of versions k+1..m, storedEvents of length n with versions m+1..m+n in
\* submission order, and currentState = the fold of the missed events and the batch
\* (the whole log of the canvas) at version m + n.
C23_BatchSyncResult ==
    (SyncEnded /\ VersionBefore >= LastSync.msg.lastKnownVersion) =>
        /\ Len(SyncReply.missedEvents) = VersionBefore - LastSync.msg.lastKnownVersion
        /\ Len(SyncReply.storedEvents) = Len(StorableOf(LastSync.msg.events))
        /\ SyncReply.currentState.version =
              VersionBefore + Len(StorableOf(LastSync.msg.events))
        /\ SyncReply.currentState.shapes = FoldShapes("C1")

\* the local event ids of a sequence of events
LocalIds(evs) == {evs[n].localEventId : n \in DOMAIN evs}

\* a batch sync that failed or timed out leaves the queue as it was
FailedSyncKeepsQueue ==
    \A t \in DOMAIN tasks :
        (tasks[t].pc = "awaitResult" /\ tasks'[t].outcome = "failed")
            => pendingEvents' = pendingEvents

\* an event leaves the queue only in the step that completes a successful sync
\* whose batch included it
RemovedOnlyBySyncThatSentIt ==
    \A n \in DOMAIN pendingEvents :
        pendingEvents[n].localEventId \notin LocalIds(pendingEvents')
            => \E t \in DOMAIN tasks :
                  /\ tasks[t].pc = "delete"
                  /\ tasks'[t].outcome = "synced"
                  /\ pendingEvents[n].localEventId \in LocalIds(tasks[t].batch)

\* C24: a pending event stays in the client's durable queue until a BATCH_SYNC that
\* included it has succeeded: a failed or timed-out batch sync leaves the queue
\* unchanged, and an event enqueued while a batch sync is in flight is still in the
\* queue after that sync completes
C24_PendingUntilSynced ==
    [][FailedSyncKeepsQueue /\ RemovedOnlyBySyncThatSentIt]_vars

\* (the first half of C24 alone)
FailedSyncLeavesQueue == [][FailedSyncKeepsQueue]_vars

\* the queueEvent calls that return in this step
Returning ==
    {t \in DOMAIN tasks' :
        /\ tasks'[t].kind = "queueEvent"
        /\ tasks'[t].pc = "done"
        /\ (t \in DOMAIN tasks => tasks[t].pc # "done")}

\* the record of the queue that holds the event of task t, were it there
QueuedAs(store, t) ==
    {n \in DOMAIN store :
        store[n] = [tasks'[t].event EXCEPT !.timestamp = store[n].timestamp]}

\* a returning call of a storable kind is acknowledged, with the version the server
\* gave the event and nothing added to the queue, or else its event is in the queue
AckedOrQueued ==
    \A t \in Returning :
        shouldStoreEvent(tasks'[t].event.eventType) =>
            \/ /\ tasks'[t].synced
               /\ tasks'[t].call # 0
               /\ calls[tasks'[t].call].pc = "returned"
               /\ tasks'[t].version = calls[tasks'[t].call].storedEvents[1].version
               /\ pendingEvents' = pendingEvents
            \/ /\ ~tasks'[t].synced
               /\ Cardinality(QueuedAs(pendingEvents', t)) = 1
               /\ QueuedAs(pendingEvents, t) = {}
               /\ Len(pendingEvents') = Len(pendingEvents) + 1

\* offline or with the socket not open, the call returns at once, the event queued
\* and nothing sent
OfflineGoesStraightToQueue ==
    \A t \in DOMAIN tasks' \ DOMAIN tasks :
        (tasks'[t].kind = "queueEvent" /\ shouldStoreEvent(tasks'[t].event.eventType)
         /\ ~canSendOnline)
            => /\ calls' = calls
               /\ tasks'[t].pc = "done"
               /\ ~tasks'[t].synced
               /\ Cardinality(QueuedAs(pendingEvents', t)) = 1

\* every call of queueEvent returns
EveryCallReturns ==
    \A t \in 1..MaxOps :
        [](t \in DOMAIN tasks => <>(t \in DOMAIN tasks /\ tasks[t].pc # "awaitAck"))

\* C25: every storable event passed to queueEvent ends acknowledged by the server
\* (synced = true with the ack's version) or persisted in the pending queue
\* (synced = false), never both and never neither; offline or with the transport not
\* writable it goes straight to the queue without a send; when no EVENT_ACK arrives
\* before the timeout it falls through to the queue
C25_AckedOrQueued ==
    [][AckedOrQueued]_vars /\ [][OfflineGoesStraightToQueue]_vars /\ EveryCallReturns

\* a state where one event was acknowledged and another, sent without an ack coming
\* back in time, was queued
C25_Witness ==
    /\ \E t \in DOMAIN tasks :
          tasks[t].kind = "queueEvent" /\ tasks[t].pc = "done" /\ tasks[t].synced
          /\ tasks[t].version > 0
    /\ \E t \in DOMAIN tasks :
          /\ tasks[t].kind = "queueEvent" /\ tasks[t].pc = "done" /\ ~tasks[t].synced
          /\ tasks[t].call # 0
          /\ tasks[t].event.localEventId \in LocalIds(pendingEvents)

\* the syncs that have sent their BATCH_SYNC
SentSyncs == {t \in DOMAIN tasks : tasks[t].kind = "sync" /\ tasks[t].call # 0}

\* the events of every batch are in non-decreasing order of their timestamps
BatchInTimestampOrder ==
    \A t \in DOMAIN tasks :
        \A i, j \in DOMAIN tasks[t].batch :
            i < j => tasks[t].batch[i].timestamp <= tasks[t].batch[j].timestamp

\* the batch a sync sends is the pending events of the current canvas, all of them
\* and no event of another canvas
BatchIsQueueOfCanvas ==
    \A t \in DOMAIN tasks :
        (tasks[t].pc = "read" /\ tasks'[t].pc = "awaitResult")
            => /\ LocalIds(tasks'[t].batch) =
                     {pendingEvents[n].localEventId :
                         n \in {m \in DOMAIN pendingEvents :
                                   pendingEvents[m].canvasId = syncService.canvasId}}
               /\ Len(tasks'[t].batch) = Cardinality(LocalIds(tasks'[t].batch))

\* the server stores the events of a batch in the order of the batch, each with a
\* greater version than the one before
VersionsFollowBatch ==
    \A t \in SentSyncs :
        LET stored == calls[tasks[t].call].storedEvents
        IN  /\ calls[tasks[t].call].pc = "returned" => Len(stored) = Len(tasks[t].batch)
            /\ \A n \in DOMAIN stored :
                  /\ stored[n].eventType = tasks[t].batch[n].eventType
                  /\ stored[n].shapeId = tasks[t].batch[n].shapeId
                  /\ n > 1 => stored[n].version > stored[n - 1].version

\* the step that completes a successful sync leaves no pending event of the canvas
QueueEmptyAfterSync ==
    \A t \in DOMAIN tasks :
        (tasks[t].pc = "delete" /\ tasks'[t].outcome = "synced")
            => getPendingEvents(pendingEvents', syncService.canvasId) = <<>>

\* the step that completes a successful sync leaves none of the events the sync
\* submitted, and none that was pending when clearPendingEvents read the queue
SubmittedGoneAfterSync ==
    \A t \in DOMAIN tasks :
        (tasks[t].pc = "delete" /\ tasks'[t].outcome = "synced")
            => /\ LocalIds(pendingEvents') \cap LocalIds(tasks[t].batch) = {}
               /\ LocalIds(pendingEvents') \cap LocalIds(tasks[t].read) = {}
               /\ \A n \in DOMAIN pendingEvents' :
                     pendingEvents'[n].canvasId # syncService.canvasId
                        => pendingEvents'[n].localEventId \in LocalIds(pendingEvents)

Arrived == handlers'[Len(handlers')]

\* the arriving message is a protocol error: an unknown type, a frame that does not
\* parse, a JOIN_CANVAS without canvasId, or a SHAPE_EVENT, BATCH_SYNC or GET_STATE
\* of a session attached to no canvas
ProtocolError ==
    /\ Len(handlers') = Len(handlers) + 1
    /\ \/ Arrived.msg.type \in UnknownTypes /\ "frame" \notin DOMAIN Arrived.msg
       \/ "frame" \in DOMAIN Arrived.msg /\ ~IsJson(Arrived.msg.frame)
       \/ Arrived.msg.type = "JOIN_CANVAS" /\ Arrived.msg.canvasId = NoCanvas
       \/ /\ Arrived.msg.type \in {"SHAPE_EVENT", "BATCH_SYNC", "GET_STATE"}
          /\ connInfo[Arrived.ws].canvasId = NoCanvas

\* a protocol error is answered with one ERROR to the sender; nothing is stored or
\* broadcast, the rooms and the session stay as they were, the session stays open
ErrorReplyOnly ==
    ProtocolError =>
        /\ \E m \in {inbox'[Arrived.ws][Len(inbox'[Arrived.ws])]} :
              /\ m.type = "ERROR"
              /\ inbox' = [inbox EXCEPT ![Arrived.ws] = Append(@, m)]
        /\ Arrived.pc = "done"
        /\ UNCHANGED <<storeVars, canvasRooms, connInfo, open, connections>>

\* no exception has escaped a message handler
NoHandlerEscapes == \A h \in DOMAIN handlers : ~handlers[h].escaped

\* C27: an unknown message type, malformed JSON, a JOIN_CANVAS without canvasId, or a
\* SHAPE_EVENT / BATCH_SYNC / GET_STATE from a session attached to no canvas produces
\* an ERROR reply to the sender only, stores no event, broadcasts nothing and changes
\* neither the rooms map nor the session's canvas; and no handler exception escapes
C27_ProtocolErrors == [][ErrorReplyOnly]_vars /\ []NoHandlerEscapes

\* (the first half of C27 alone)
ProtocolErrorsAnswered == [][ErrorReplyOnly]_vars

\* (a protocol error of each kind has arrived)
ProtocolErrorsSeen ==
    /\ \E h \in DOMAIN handlers : handlers[h].msg.type = "PING"
    /\ \E h \in DOMAIN handlers :
          handlers[h].msg.type = "GET_STATE" /\ handlers[h].ws = "w2"
    /\ \E h \in DOMAIN handlers :
          handlers[h].msg.type = "JOIN_CANVAS" /\ handlers[h].msg.canvasId = NoCanvas

\* the step in which handleJoinCanvas starts for a session that is in a room: the
\* session is taken out of that room and the peers left in it are sent USER_LEFT
DetachedFirst ==
    (/\ Len(handlers') = Len(handlers) + 1
     /\ Arrived.msg.type = "JOIN_CANVAS"
     /\ Arrived.pc = "attach"
     /\ connInfo[Arrived.ws].canvasId # NoCanvas)
        => LET w == Arrived.ws
               prev == connInfo[w].canvasId
           IN  /\ prev \in DOMAIN canvasRooms' => w \notin canvasRooms'[prev]
               /\ connInfo'[w].canvasId = NoCanvas
               /\ \A p \in Sockets :
                     (prev \in DOMAIN canvasRooms /\ p \in canvasRooms[prev] \cap open /\ p # w)
                        => /\ Len(inbox'[p]) = Len(inbox[p]) + 1
                           /\ inbox'[p][Len(inbox'[p])] =
                                 [type |-> "USER_LEFT", userId |-> connInfo[w].userId]

\* the step in which handler h of a JOIN_CANVAS of an open session sends its replies:
\* the session is attached to the new room and to no other; it is sent JOIN_SUCCESS
\* and then CANVAS_STATE, whose users list has the joiner, and nothing else; every
\* other member of the room is sent one USER_JOINED; nobody else is sent anything
JoinReplies(h) ==
    (/\ handlers[h].pc = "respond"
     /\ handlers[h].msg.type = "JOIN_CANVAS"
     /\ handlers'[h].pc = "done"
     /\ handlers[h].ws \in open \cap connections)
        => LET w == handlers[h].ws
               c == handlers[h].msg.canvasId
               joiner == [userId |-> connInfo[w].userId, username |-> connInfo[w].username]
           IN  /\ connInfo[w].canvasId = c
               /\ RoomsOf(w) = {c}
               /\ Len(inbox'[w]) = Len(inbox[w]) + 2
               /\ SubSeq(inbox'[w], 1, Len(inbox[w])) = inbox[w]
               /\ inbox'[w][Len(inbox[w]) + 1].type = "JOIN_SUCCESS"
               /\ inbox'[w][Len(inbox[w]) + 1].canvasId = c
               /\ inbox'[w][Len(inbox[w]) + 2].type = "CANVAS_STATE"
               /\ joiner \in inbox'[w][Len(inbox[w]) + 2].users
               /\ \A p \in Sockets \ {w} :
                     IF c \in DOMAIN canvasRooms /\ p \in canvasRooms[c] \cap open
                     THEN inbox'[p] = Append(inbox[p],
                             [type |-> "USER_JOINED", userId |-> joiner.userId,
                              username |-> joiner.username])
                     ELSE inbox'[p] = inbox[p]

\* C28: a successful JOIN_CANVAS first detaches the session from its previous canvas
\* (peers of that canvas get USER_LEFT), then attaches it to the new room, sends the
\* joiner JOIN_SUCCESS strictly before CANVAS_STATE, and broadcasts exactly one
\* USER_JOINED to the other members of the new room and none to the joiner; the users
\* list in CANVAS_STATE contains the joiner
C28_JoinOrder ==
    [][DetachedFirst /\ \A h \in DOMAIN handlers : JoinReplies(h)]_vars

\* the ticks of the interval since the last pong of w (since the start, without one)
TicksSinceLastPong(w) ==
    LET pongs == {h \in DOMAIN handlers :
                     handlers[h].ws = w /\ handlers[h].msg.type = "pong"}
    IN  Cardinality({h \in DOMAIN handlers :
                        /\ handlers[h].msg.type = "heartbeat"
                        /\ \A g \in pongs : g < h})

\* this step is a tick of the heartbeat
IsTick == Beats' = Beats + 1

\* at a tick a session whose isAlive is false is terminated; every other one is
\* marked not alive and pinged
TickRule ==
    IsTick =>
        \A w \in open \cap connections :
            IF ~connInfo[w].isAlive
            THEN w \notin open'
            ELSE /\ w \in open'
                 /\ ~connInfo'[w].isAlive
                 /\ inbox'[w] = Append(inbox[w], [type |-> "ping"])

\* a pong sets isAlive
PongRule ==
    \A w \in connections : Pongs(w)' = Pongs(w) + 1 => connInfo'[w].isAlive

\* a tick terminates no session that has answered every ping, and terminates the
\* session that has not answered the ping of the tick before: the second tick after
\* its last pong
TerminatedAtSecondTick ==
    IsTick =>
        \A w \in open \cap connections :
            /\ Pongs(w) = Pings(w) => w \in open'
            /\ w \notin open' <=> TicksSinceLastPong(w) = 1
            /\ TicksSinceLastPong(w) <= 1

\* the close event of a terminated session takes it out of its room and out of the
\* sessions map
RemovedAtClose ==
    \A w \in connections \ open :
        w \notin connections'
            => \A c \in DOMAIN canvasRooms' : w \notin canvasRooms'[c]

\* a terminated session is removed
TerminatedThenRemoved ==
    \A w \in Sockets :
        (w \notin open /\ w \in connections) ~> (w \notin connections /\ RoomsOf(w) = {})

RestAnswering ==
    {h \in DOMAIN handlers : handlers[h].pc = "restRespond" /\ handlers'[h].pc = "done"}

\* the events of the request are in the log with new versions, above the version the
\* canvas had when the batch began
RestStoresEvents(h) ==
    LET c == calls[handlers[h].call]
    IN  /\ Len(c.storedEvents) = StorableCount(handlers[h].msg.events)
        /\ \A n \in DOMAIN c.storedEvents :
              /\ \E m \in DOMAIN events :
                    /\ events[m].id = c.storedEvents[n].eventId
                    /\ events[m].version = c.storedEvents[n].version
                    /\ events[m].canvas_id = handlers[h].canvasId
              /\ n > 1 => c.storedEvents[n].version > c.storedEvents[n - 1].version

\* every stored event is sent as SHAPE_EVENT to the sessions attached to the canvas
RestFansOut(h) ==
    LET c == calls[handlers[h].call]
    IN  \A w \in Sockets :
            (handlers[h].canvasId \in DOMAIN canvasRooms
             /\ w \in canvasRooms[handlers[h].canvasId] \cap open)
                => \A n \in DOMAIN c.storedEvents :
                      \E k \in (Len(inbox[w]) + 1)..Len(inbox'[w]) :
                          /\ inbox'[w][k].type = "SHAPE_EVENT"
                          /\ inbox'[w][k].eventId = c.storedEvents[n].eventId

\* the response carries success, storedEvents, missedEvents, currentState, conflicts
RestResponseFields(h) ==
    /\ handlers'[h].response.status = 200
    /\ {"success", "storedEvents", "missedEvents", "currentState", "conflicts"}
          \subseteq DOMAIN handlers'[h].response.body
    /\ handlers'[h].response.body.success

\* C30: POST /api/canvas/:id/sync has the semantics of BATCH_SYNC: the events are
\* stored with new versions, every stored event is fanned out as SHAPE_EVENT to the
\* sessions attached to that canvas, and the response carries success, storedEvents,
\* missedEvents, currentState and conflicts
C30_RestSync ==
    [][\A h \in RestAnswering :
          RestStoresEvents(h) /\ RestFansOut(h) /\ RestResponseFields(h)]_vars

\* (the part of C30 that holds: the events are stored with new versions)
RestStores == [][\A h \in RestAnswering : RestStoresEvents(h)]_vars

\* a connection whose close event has been handled is in no room
ClosedIsInNoRoom == \A w \in Sockets \ connections : RoomsOf(w) = {}

\* the close of a connection that is in a room sends USER_LEFT to the peers left in
\* that room
PeersToldOnClose ==
    \A w \in open \ open' :
        (w \in connections /\ connInfo[w].canvasId # NoCanvas
         /\ connInfo[w].canvasId \in DOMAIN canvasRooms)
            => \A p \in (canvasRooms[connInfo[w].canvasId] \cap open') \ {w} :
                  /\ Len(inbox'[p]) = Len(inbox[p]) + 1
                  /\ inbox'[p][Len(inbox'[p])] =
                        [type |-> "USER_LEFT", userId |-> connInfo[w].userId]

\* nothing is sent to a closed connection, and it is in no users list
ClosedGetsNothing ==
    \A w \in Sockets \ open :
        /\ inbox'[w] = inbox[w]
        /\ w \notin connections =>
              \A c \in DOMAIN canvasRooms :
                  \A u \in getCanvasUsers(Node, c) :
                      u.userId = connInfo[w].userId =>
                          \E p \in canvasRooms[c] \cap connections :
                              connInfo[p].userId = u.userId

\* C31: after a connection's close has been handled, the connection is a member of no
\* room and has no entry in the sessions map, its former room's peers got USER_LEFT,
\* and it receives no later broadcast; also when the close arrives while one of the
\* connection's JOIN_CANVAS, SHAPE_EVENT or BATCH_SYNC handlers is awaiting the store
C31_CloseCleansUp ==
    /\ []ClosedIsInNoRoom
    /\ [][PeersToldOnClose /\ ClosedGetsNothing]_vars

\* (the parts of C31 that hold: the peers are told, the closed connection gets nothing)
CloseTellsPeers == [][PeersToldOnClose /\ ClosedGetsNothing]_vars

-----------------------------------------------------------------------------
(* SyncService: the coalescing of property edits.  _pendingUpdates is a Map, kept  *)
(* here as the sequence of its entries in insertion order; a for-of loop over it   *)
(* is live: `at` counts the entries the loop has been handed.  The three ways a    *)
(* coalesced payload leaves the Map are the debounced sender, the flush loop of    *)
(* syncPendingEvents and _flushPendingUpdatesToStorage.                            *)

MaxEdits == 2
MaxSyncs == 1

\* uuidv4()
EditUuids == <<"U1", "U2", "U3", "U4", "U5", "U6", "U7", "U8", "U9", "U10", "U11",
               "U12", "U13", "U14", "U15", "U16">>

HasUpdate(map, shapeId) == \E n \in DOMAIN map : map[n].shapeId = shapeId

EntryAt(map, shapeId) == CHOOSE n \in DOMAIN map : map[n].shapeId = shapeId

\* Map.prototype.set: the value of an existing key is replaced in place, a new key
\* goes to the end
MapSet(map, shapeId, update) ==
    IF HasUpdate(map, shapeId)
    THEN [map EXCEPT ![EntryAt(map, shapeId)].update = update]
    ELSE Append(map, [shapeId |-> shapeId, update |-> update])

\* Map.prototype.delete
MapDelete(map, shapeId) == SelectSeq(map, LAMBDA e : e.shapeId # shapeId)

\* the loops that are iterating the Map after the entry of shapeId was deleted
AfterDelete(ts, map, shapeId) ==
    IF ~HasUpdate(map, shapeId) THEN ts
    ELSE [u \in DOMAIN ts |->
            IF ts[u].at >= EntryAt(map, shapeId) THEN [ts[u] EXCEPT !.at = @ - 1]
            ELSE ts[u]]

EditTask(kind, pc) ==
    [kind |-> kind, pc |-> pc, event |-> EmptyObj, call |-> 0, lost |-> FALSE,
     synced |-> FALSE, version |-> 0, batch |-> <<>>, read |-> <<>>,
     outcome |-> "none", at |-> 0]

TasksOfKind(kind) == {t \in DOMAIN tasks : tasks[t].kind = kind}

\* the debounced function of utils/throttle.js, debounce(fn, 300): a call restarts the
\* one timer of the debounced function and keeps its arguments; when the timer runs
\* out, fn is called once, with the arguments of the last call
debounce(timer, shapeId) == shapeId

\* the event object _sendEvent and _flushPendingUpdatesToStorage build
EditEvent(svc, shapeId, update) ==
    [localEventId |-> EditUuids[svc.uuid + 1], canvasId |-> svc.canvasId,
     eventType |-> "SHAPE_EDITED", shapeId |-> shapeId, payload |-> update,
     timestamp |-> now, userId |-> svc.userId]

\* queueShapeEdited(shapeId, properties)
QueueShapeEdited(shapeId, properties) ==
    /\ Cardinality(TasksOfKind("queueShapeEdited")) < MaxEdits
    /\ LET r == recordLocalOperation(conflictResolver, shapeId, properties, now)
           clockInfo == [vectorClock |-> r.vectorClock,
                         propertyTimestamps |-> r.propertyTimestamps[shapeId]]
           existing == IF HasUpdate(syncService.pendingUpdates, shapeId)
                       THEN syncService.pendingUpdates[
                                EntryAt(syncService.pendingUpdates, shapeId)].update.properties
                       ELSE EmptyObj
           update == Spread([properties |-> Spread(existing, properties)], clockInfo)
       IN  /\ conflictResolver' = r
           /\ syncService' =
                 [syncService EXCEPT
                     !.pendingUpdates = MapSet(@, shapeId, update),
                     !.debounce = debounce(@, shapeId)]
           /\ tasks' = Append(tasks,
                 [EditTask("queueShapeEdited", "done") EXCEPT
                     !.event = [shapeId |-> shapeId, properties |-> properties,
                                vectorClock |-> r.vectorClock],
                     !.outcome = "debounced"])
    /\ UNCHANGED <<storeVars, wsVars, pendingEvents>>
    /\ UNCHANGED <<localShapes, handled, args, result>>

\* _sendEvent(SHAPE_EDITED, shapeId, update) up to its first await, called by task t:
\* online, websocket.sendShapeEvent sends SHAPE_EVENT; otherwise
\* indexedDb.addPendingEvent is awaited
SendEdit(t, ts, svc, shapeId, update) ==
    IF svc.isOnline /\ svc.wsReady
    THEN /\ calls' = Append(calls,
                BeginStoreEvent(svc.canvasId,
                    [localEventId |-> EditUuids[svc.uuid + 2], userId |-> svc.userId,
                     eventType |-> "SHAPE_EDITED", shapeId |-> shapeId,
                     payload |-> update]))
         /\ tasks' = [ts EXCEPT ![t].pc = "awaitAck", ![t].lost = FALSE,
                                ![t].event = EditEvent(svc, shapeId, update),
                                ![t].call = Len(calls) + 1]
         /\ syncService' = [svc EXCEPT !.uuid = @ + 2]
    ELSE /\ tasks' = [ts EXCEPT ![t].pc = "awaitStore",
                                ![t].event = EditEvent(svc, shapeId, update)]
         /\ syncService' = [svc EXCEPT !.uuid = @ + 1]
         /\ UNCHANGED calls

\* the for-of loops over _pendingUpdates, from the entry after the `at` entries handed
\* out so far: syncPendingEvents awaits _sendEvent for the entry, the offline flush
\* awaits indexedDb.addPendingEvent; after the last entry _pendingUpdates.clear()
FlushLoop(t, ts, svc) ==
    IF ts[t].at < Len(svc.pendingUpdates)
    THEN LET entry == svc.pendingUpdates[ts[t].at + 1]
             handed == [ts EXCEPT ![t].at = @ + 1]
         IN  IF ts[t].kind = "sync"
             THEN SendEdit(t, handed, svc, entry.shapeId, entry.update)
             ELSE /\ tasks' = [handed EXCEPT
                                  ![t].pc = "awaitStore",
                                  ![t].event = EditEvent(svc, entry.shapeId, entry.update)]
                  /\ syncService' = [svc EXCEPT !.uuid = @ + 1]
                  /\ UNCHANGED calls
    ELSE /\ tasks' = [u \in DOMAIN ts |->
                         IF u = t
                         THEN [ts[u] EXCEPT
                                 !.at = 0,
                                 !.pc = IF ts[t].kind = "sync" THEN "read" ELSE "done",
                                 !.outcome = IF ts[t].kind = "sync" THEN "none"
                                             ELSE "flushed"]
                         ELSE [ts[u] EXCEPT !.at = 0]]
         /\ syncService' = [svc EXCEPT !.pendingUpdates = <<>>]
         /\ UNCHANGED calls

\* what follows the await of task t: the debounced sender deletes the entry of its
\* shape, a loop goes on with the next entry
AfterSend(t, ts, svc) ==
    IF ts[t].kind = "flush"
    THEN /\ tasks' = AfterDelete([ts EXCEPT ![t].pc = "done"], svc.pendingUpdates,
                                 ts[t].event.shapeId)
         /\ syncService' =
               [svc EXCEPT !.pendingUpdates = MapDelete(@, ts[t].event.shapeId)]
         /\ UNCHANGED calls
    ELSE FlushLoop(t, ts, svc)

\* the timer of the debounced sender runs out: the sender is called with the shape
\* id the debounced function kept
DebounceFires ==
    /\ syncService.debounce # NoShape
    /\ LET shapeId == syncService.debounce
           svc == [syncService EXCEPT !.debounce = NoShape]
       IN  IF HasUpdate(svc.pendingUpdates, shapeId)
           THEN SendEdit(Len(tasks) + 1, Append(tasks, EditTask("flush", "start")), svc,
                         shapeId,
                         svc.pendingUpdates[EntryAt(svc.pendingUpdates, shapeId)].update)
           ELSE /\ syncService' = svc
                /\ UNCHANGED <<calls, tasks>>
    /\ UNCHANGED <<canvases, events, shapes, now, nextId, wsVars, pendingEvents>>
    /\ UNCHANGED <<conflictResolver, localShapes, handled, args, result>>

\* EVENT_ACK arrives for the SHAPE_EVENT of task t: lastKnownVersion = ack.version
EditAcked(t) ==
    /\ t \in DOMAIN tasks
    /\ tasks[t].kind \in {"flush", "sync"}
    /\ tasks[t].pc = "awaitAck"
    /\ ~tasks[t].lost
    /\ calls[tasks[t].call].pc = "returned"
    /\ AfterSend(t, [tasks EXCEPT ![t].outcome = "acked"],
                 [syncService EXCEPT
                     !.lastKnownVersion = calls[tasks[t].call].storedEvents[1].version])
    /\ UNCHANGED <<canvases, events, shapes, now, nextId, wsVars, pendingEvents>>
    /\ UNCHANGED <<conflictResolver, localShapes, handled, args, result>>

\* the 5 s timer of sendShapeEvent rejects: the catch block falls through to the
\* await of indexedDb.addPendingEvent
EditAckTimeout(t) ==
    /\ t \in DOMAIN tasks
    /\ tasks[t].kind \in {"flush", "sync"}
    /\ tasks[t].pc = "awaitAck"
    /\ tasks' = [tasks EXCEPT ![t].pc = "awaitStore"]
    /\ UNCHANGED <<storeVars, wsVars, pendingEvents, syncService>>
    /\ UNCHANGED <<conflictResolver, localShapes, handled, args, result>>

\* indexedDb.addPendingEvent(event) of task t is done (the uuids drawn here grow, so
\* the record goes to the end of the store)
EditStored(t) ==
    /\ t \in DOMAIN tasks
    /\ tasks[t].kind \in {"flush", "sync", "offlineFlush"}
    /\ tasks[t].pc = "awaitStore"
    /\ pendingEvents' = addPendingEvent(pendingEvents, tasks[t].event, now,
                                        Len(pendingEvents) + 1)
    /\ AfterSend(t, [tasks EXCEPT ![t].outcome = "queued"], syncService)
    /\ UNCHANGED <<canvases, events, shapes, now, nextId, wsVars>>
    /\ UNCHANGED <<conflictResolver, localShapes, handled, args, result>>

\* syncPendingEvents with pending coalesced updates: the guard, then the flush loop
SyncPendingEvents ==
    /\ Cardinality(TasksOfKind("sync")) < MaxSyncs
    /\ ~syncService.isSyncing
    /\ canSendOnline
    /\ FlushLoop(Len(tasks) + 1, Append(tasks, EditTask("sync", "flush")), syncService)
    /\ UNCHANGED <<canvases, events, shapes, now, nextId, wsVars, pendingEvents>>
    /\ UNCHANGED <<conflictResolver, localShapes, handled, args, result>>

\* window 'offline': isOnline = false, then _flushPendingUpdatesToStorage()
HandleOfflineFlush ==
    /\ Cardinality(TasksOfKind("offlineFlush")) < MaxSyncs
    /\ syncService.isOnline
    /\ FlushLoop(Len(tasks) + 1, Append(tasks, EditTask("offlineFlush", "flush")),
                 [syncService EXCEPT !.isOnline = FALSE])
    /\ UNCHANGED <<canvases, events, shapes, now, nextId, wsVars, pendingEvents>>
    /\ UNCHANGED <<conflictResolver, localShapes, handled, args, result>>

\* the property edits the user makes
Edits == {<<"S1", [strokeColor |-> "#f00"]>>, <<"S1", [strokeWidth |-> 5]>>,
          <<"S2", [strokeColor |-> "#0f0"]>>}

EditInit ==
    /\ StoreInit
    /\ NoSockets
    /\ conflictResolver = NewResolver("A")
    /\ localShapes = EmptyObj
    /\ handled = <<>>
    /\ args = EmptyObj
    /\ result = EmptyObj
    /\ pendingEvents = <<>>
    /\ syncService \in [canvasId : {"C1"}, userId : {"A"}, isOnline : {TRUE},
                        wsReady : {TRUE}, isSyncing : {FALSE}, lastKnownVersion : {0},
                        pendingUpdates : {<<>>}, debounce : {NoShape}, uuid : {0}]
    /\ tasks = <<>>

\* the server has answered every SHAPE_EVENT and BATCH_SYNC it was sent (the
\* interleavings of the store's transactions are those of SpecTxn; here the client
\* acts between two requests of the server, the answer to a request may be in flight)
ServerIdle == \A k \in DOMAIN calls : Finished(calls[k])

\* (the sync task stays at its await of indexedDb.getPendingEvents: what follows it
\* does not touch _pendingUpdates and is taken in SpecOffline)
EditNext ==
    \/ ServerIdle /\ \E e \in Edits : QueueShapeEdited(e[1], e[2])
    \/ ServerIdle /\ DebounceFires
    \/ \E t \in DOMAIN tasks : EditAcked(t)
    \/ ServerIdle /\ \E t \in DOMAIN tasks : EditAckTimeout(t)
    \/ ServerIdle /\ \E t \in DOMAIN tasks : EditStored(t)
    \/ ServerIdle /\ SyncPendingEvents
    \/ ServerIdle /\ HandleOfflineFlush
    \/ TxnStep

\* the debounce timer runs out, the server works, sends and writes end
EditFairness ==
    /\ WF_vars(ServerIdle /\ DebounceFires)
    /\ WF_vars(TxnStep)
    /\ \A t \in 1..(2 * MaxEdits + 2 * MaxSyncs) :
          /\ WF_vars(EditAcked(t))
          /\ WF_vars(ServerIdle /\ EditAckTimeout(t))
          /\ WF_vars(ServerIdle /\ EditStored(t))

SpecEdit == EditInit /\ [][EditNext]_vars /\ EditFairness

\* the properties pending for a shape, {} when it has no entry
PendingProperties(svc, shapeId) ==
    IF HasUpdate(svc.pendingUpdates, shapeId)
    THEN svc.pendingUpdates[EntryAt(svc.pendingUpdates, shapeId)].update.properties
    ELSE EmptyObj

\* a call of queueShapeEdited leaves, for its shape, the pending properties of before
\* overridden key by key by the properties of the call, in one entry
MergedPerKey ==
    Len(tasks') = Len(tasks) + 1 /\ tasks'[Len(tasks')].kind = "queueShapeEdited"
    => LET call == tasks'[Len(tasks')].event
           before == PendingProperties(syncService, call.shapeId)
           after == PendingProperties(syncService', call.shapeId)
       IN  /\ Cardinality({n \in DOMAIN syncService'.pendingUpdates :
                  syncService'.pendingUpdates[n].shapeId = call.shapeId}) = 1
           /\ DOMAIN after = DOMAIN before \cup DOMAIN call.properties
           /\ \A key \in DOMAIN after :
                 after[key] = IF key \in DOMAIN call.properties
                              THEN call.properties[key] ELSE before[key]

\* the SHAPE_EDITED events the client has sent to the server or written to IndexedDB
FlushedEdits ==
    {[shapeId |-> calls[k].evs[1].shapeId, payload |-> calls[k].evs[1].payload] :
        k \in DOMAIN calls}
    \cup {[shapeId |-> pendingEvents[n].shapeId, payload |-> pendingEvents[n].payload] :
            n \in DOMAIN pendingEvents}

\* the pending payload of a shape has been sent or enqueued
PendingFlushed(shapeId) ==
    \/ ~HasUpdate(syncService.pendingUpdates, shapeId)
    \/ \E f \in FlushedEdits :
          /\ f.shapeId = shapeId
          /\ f.payload = syncService.pendingUpdates[
                            EntryAt(syncService.pendingUpdates, shapeId)].update

\* C32: rapid queueShapeEdited calls for one shape are shallow-merged into one pending
\* payload, later values overriding earlier ones per key, and every shape with a
\* pending payload is eventually flushed (sent or enqueued) once the edits stop, also
\* when two shapes are edited within one debounce window.
C32_EditCoalescing ==
    /\ [][MergedPerKey]_vars
    /\ \A s \in ShapeIds : <>[]PendingFlushed(s)

\* the merge alone
EditsMergedPerKey == [][MergedPerKey]_vars

\* the SHAPE_EDITED events an awaited indexedDb.addPendingEvent is writing
BeingStored ==
    {[shapeId |-> tasks[t].event.shapeId, payload |-> tasks[t].event.payload] :
        t \in {u \in DOMAIN tasks : tasks[u].pc = "awaitStore"}}

\* edit number n of the client (its vectorClock entry) is in payload f
Carries(f, call) ==
    /\ f.shapeId = call.shapeId
    /\ f.payload.vectorClock[syncService.userId] >= call.vectorClock[syncService.userId]
    /\ DOMAIN call.properties \subseteq DOMAIN f.payload.properties

\* every property edit that was queued is pending, on its way, or was sent or enqueued
\* in a payload built after it
NoEditLost ==
    \A t \in TasksOfKind("queueShapeEdited") :
        \/ DOMAIN tasks[t].event.properties
              \subseteq DOMAIN PendingProperties(syncService, tasks[t].event.shapeId)
        \/ \E f \in FlushedEdits \cup BeingStored : Carries(f, tasks[t].event)

\* no payload was sent to the server in two SHAPE_EVENTs or written to IndexedDB twice
FlushedOnce ==
    /\ \A k, m \in DOMAIN calls :
          calls[k].evs[1].shapeId = calls[m].evs[1].shapeId
          /\ calls[k].evs[1].payload = calls[m].evs[1].payload => k = m
    /\ \A n, m \in DOMAIN pendingEvents :
          pendingEvents[n].shapeId = pendingEvents[m].shapeId
          /\ pendingEvents[n].payload = pendingEvents[m].payload => n = m

\* C37: a property edit queued while a flush of its shape is awaited (debounced send,
\* flush loop of syncPendingEvents, offline flush) is later sent or enqueued, and each
\* coalesced payload reaches the server or the durable queue exactly once.
C37_NoEditLostOrTwice == NoEditLost /\ FlushedOnce

-----------------------------------------------------------------------------
(* indexedDb.js: applyPendingEventsToState, called by getStateFromCache with the   *)
(* cached snapshot (the shapes of a CANVAS_STATE) and the pending events in        *)
(* timestamp order; one snapshot and one sequence of events per behaviour.         *)

MaxPending == 3

\* shapesMap.set(shapeId, shape): the Map as the sequence of its values
SetShape(list, shape) ==
    IF \E n \in DOMAIN list : list[n].id = shape.id
    THEN [n \in DOMAIN list |-> IF list[n].id = shape.id THEN shape ELSE list[n]]
    ELSE Append(list, shape)

\* one turn of the switch of applyPendingEventsToState
ApplyPending(list, event) ==
    LET shapeId == event.shapeId
        payload == event.payload
        has == \E n \in DOMAIN list : list[n].id = shapeId
        Assign(props) ==
            [n \in DOMAIN list |->
                IF list[n].id = shapeId THEN Spread(list[n], props) ELSE list[n]]
    IN  CASE event.eventType = "SHAPE_CREATED" ->
                SetShape(list,
                    Spread(Spread([id |-> shapeId, type |-> TypeOf(payload)],
                                  PropsOrSelf(payload)),
                           [zIndex |-> ZIndexOf(payload)]))
          [] event.eventType = "SHAPE_EDITED" /\ has -> Assign(PropsOrSelf(payload))
          [] event.eventType = "SHAPE_MOVED" /\ has ->
                Assign([x |-> PositionOf(payload).x, y |-> PositionOf(payload).y])
          [] event.eventType = "DRAG_END" /\ has /\ Has(payload, "endPosition") ->
                Assign([x |-> payload.endPosition.x, y |-> payload.endPosition.y])
          [] event.eventType = "SHAPE_DELETED" ->
                SelectSeq(list, LAMBDA s : s.id # shapeId)
          [] OTHER -> list

RECURSIVE applyPendingEventsToState(_, _)
applyPendingEventsToState(list, pending) ==
    IF pending = <<>> THEN list
    ELSE applyPendingEventsToState(ApplyPending(list, Head(pending)), Tail(pending))

\* the rows of shapes after the server has applied the events, in order, on canvas C1
RECURSIVE ServerApplied(_, _)
ServerApplied(rows, pending) ==
    IF pending = <<>> THEN rows
    ELSE ServerApplied(
             Spread(rows, applyEvent(rows, "C1", Head(pending).eventType,
                                     Head(pending).shapeId, Head(pending).payload, now)),
             Tail(pending))

\* an edit that carries zIndex among its properties
PEditZ == [properties |-> [strokeColor |-> "#0f0", zIndex |-> 7]]
EEditZ == Ev("L13", "A", "SHAPE_EDITED", "S1", PEditZ)

\* the tables of shapes the cached snapshot is taken from
SnapshotRows ==
    {EmptyObj,
     [s \in {"S1"} |->
        [canvas_id |-> "C1", type |-> "rectangle",
         properties |-> [x |-> 10, y |-> 20, strokeColor |-> "#000"], z_index |-> 0,
         updated_at |-> 900, deleted_at |-> 0]]}

PendingKinds == {ECreate1c, ECreate2, EEditColor, EEditZ, EMove, EDragEnd, EDelete, EPointer}

PendingSeqs == UNION {[1..n -> PendingKinds] : n \in 0..MaxPending}

ProjectArgs == [fn : {"project"}, rows : SnapshotRows, pending : PendingSeqs]

\* getStateFromCache: cached.shapes is what getCanvasState rendered
CallGetStateFromCache ==
    /\ args.fn = "project"
    /\ result' = [op |-> "getStateFromCache",
                  shapes |-> applyPendingEventsToState(StateShapes(args.rows, "C1"),
                                                       args.pending)]
    /\ UNCHANGED <<storeVars, wsVars, syncVars, conflictResolver, localShapes, handled, args>>

ProjectInit ==
    /\ StoreInit
    /\ NoSockets
    /\ NoSync
    /\ conflictResolver = EmptyObj
    /\ localShapes = EmptyObj
    /\ handled = <<>>
    /\ args \in ProjectArgs
    /\ result = EmptyObj

ProjectNext == CallGetStateFromCache

SpecProject == ProjectInit /\ [][ProjectNext]_vars

Elements(list) == {list[n] : n \in DOMAIN list}

\* C33: for every snapshot and every sequence of storable events, the shapes
\* applyPendingEventsToState yields are the shapes getCanvasState returns after the
\* server applied the same events to the same snapshot, also for a SHAPE_EDITED that
\* carries zIndex and a SHAPE_CREATED of an existing shape id.
C33_ClientProjectionIsServers ==
    Returned("getStateFromCache")
    => Elements(result.shapes)
         = Elements(StateShapes(ServerApplied(args.rows, args.pending), "C1"))

\* the same without the two cases the rules differ in
ProjectionAgreesElsewhere ==
    Returned("getStateFromCache")
        /\ (\A n \in DOMAIN args.pending : args.pending[n] \notin {ECreate1c, EEditZ})
    => Elements(result.shapes)
         = Elements(StateShapes(ServerApplied(args.rows, args.pending), "C1"))

\* the messages a step appends to the inbox of socket w
Arriving(w) == {n \in DOMAIN inbox'[w] : n > Len(inbox[w])}

\* a SHAPE_EVENT for a stored event goes only to sockets in the room of the canvas
\* the event was stored on
BroadcastStaysInRoom ==
    \A w \in DOMAIN inbox : \A n \in Arriving(w) :
        inbox'[w][n].type = "SHAPE_EVENT" /\ inbox'[w][n].eventId # 0
        => /\ CanvasOfEvent(inbox'[w][n].eventId) \in DOMAIN canvasRooms
           /\ w \in canvasRooms[CanvasOfEvent(inbox'[w][n].eventId)]

\* the peers that were in the event's room at the commit and have stayed have the event
PeersStillReceive ==
    \A h \in DOMAIN handlers :
        Answered(h) =>
            \A e \in CommittedIds(h) :
                \A w \in (audience[e] \cap open) \ {handlers[h].ws} : Delivered(w, e) >= 1

\* C34: a stored event is broadcast only to the room of the canvas it was stored on:
\* when the sender joins another canvas or leaves before the store completes, no
\* session of the other canvas receives the SHAPE_EVENT and the peers of the event's
\* canvas still receive it.
C34_BroadcastToStoredCanvas == [][BroadcastStaysInRoom]_vars /\ []PeersStillReceive

\* the first half alone
NoForeignBroadcast == [][BroadcastStaysInRoom]_vars

\* the canvases a store call that has not finished works on
ActiveCanvases == {calls[k].canvasId : k \in {m \in DOMAIN calls : ~Finished(calls[m])}}

EventsOfCanvas(rows, c) == SelectSeq(rows, LAMBDA e : e.canvas_id = c)

\* a step of the store leaves the version, the log and the projected shapes of every
\* canvas no running call works on as they were
OtherCanvasesUntouched ==
    \A c \in Canvases \ ActiveCanvases :
        /\ MaxVersion(events', c) = MaxVersion(events, c)
        /\ EventsOfCanvas(events', c) = EventsOfCanvas(events, c)
        /\ StateShapes(shapes', c) = StateShapes(shapes, c)

\* C35: storing an event on canvas A changes neither the version, the event log nor
\* the projected shapes of any other canvas B, also for a SHAPE_CREATED on A whose
\* shapeId is the id of a shape that exists on B.
C35_CanvasIsolation == [][OtherCanvasesUntouched]_vars

\* the version and the log alone
OtherLogsUntouched ==
    [][\A c \in Canvases \ ActiveCanvases :
          EventsOfCanvas(events', c) = EventsOfCanvas(events, c)]_vars

\* the invocations of syncPendingEvents whose BATCH_SYNC awaits its result
InFlight == {t \in TasksOfKind("sync") : tasks[t].pc = "awaitResult"}

\* the invocations that have sent a batch and have not ended
Syncing == {t \in TasksOfKind("sync") : tasks[t].pc \in {"awaitResult", "clear", "delete"}}

OneBatchInFlight == Cardinality(InFlight) <= 1

NoEventInTwoBatches ==
    \A t, u \in Syncing :
        t # u => LocalIds(tasks[t].batch) \cap LocalIds(tasks[u].batch) = {}

\* C36: at most one BATCH_SYNC of the client is in flight: an invocation of
\* syncPendingEvents made while an earlier one has not finished sends no BATCH_SYNC,
\* so no pending event is submitted in two batches.
C36_OneSyncInFlight == OneBatchInFlight /\ NoEventInTwoBatches

-----------------------------------------------------------------------------
(* websocket.js: the connection of the client's WebSocketService, the singleton   *)
(* the SyncService sends through, kept in syncService.websocket.  One WebSocket    *)
(* exists at a time: readyState is that of the socket created last, ws tells       *)
(* whether this.ws still refers to it.  connect() has been called once.            *)

maxReconnectAttempts == 10

NewWebSocketService ==
    [ws |-> "socket", readyState |-> "CONNECTING", isConnected |-> FALSE,
     hasJoinedCanvas |-> FALSE, reconnectAttempts |-> 0, timer |-> FALSE,
     canvasId |-> NoCanvas, disconnected |-> FALSE, emitted |-> "none"]

Websocket == syncService.websocket

SetWebsocket(service) ==
    /\ syncService' = [syncService EXCEPT !.websocket = service]
    /\ UNCHANGED <<storeVars, wsVars, pendingEvents, tasks>>
    /\ UNCHANGED <<conflictResolver, localShapes, handled, args, result>>

\* attemptReconnect(): at the limit 'reconnect-failed' is emitted, otherwise the
\* counter goes up and the timer that calls connect() is set
attemptReconnect(service) ==
    IF service.reconnectAttempts >= maxReconnectAttempts
    THEN [service EXCEPT !.emitted = "reconnect-failed"]
    ELSE [service EXCEPT !.reconnectAttempts = @ + 1, !.timer = TRUE]

\* ws.onopen
OnOpen ==
    /\ Websocket.readyState = "CONNECTING"
    /\ SetWebsocket([Websocket EXCEPT !.readyState = "OPEN", !.isConnected = TRUE,
                                      !.reconnectAttempts = 0, !.emitted = "connected"])

\* joinCanvas(canvasId) and its JOIN_SUCCESS
JoinCanvas ==
    /\ Websocket.readyState = "OPEN"
    /\ Websocket.isConnected
    /\ ~Websocket.hasJoinedCanvas
    /\ SetWebsocket([Websocket EXCEPT !.canvasId = "C1", !.hasJoinedCanvas = TRUE])

\* ws.onclose, of a socket that failed to connect, was dropped, or was closed by
\* ws.close()
OnClose ==
    /\ Websocket.readyState \in {"CONNECTING", "OPEN", "CLOSING"}
    /\ SetWebsocket(attemptReconnect(
           [Websocket EXCEPT !.readyState = "CLOSED", !.isConnected = FALSE,
                             !.hasJoinedCanvas = FALSE, !.emitted = "disconnected"]))

\* the timer of attemptReconnect: connect(this.username) creates a WebSocket
ReconnectTimer ==
    /\ Websocket.timer
    /\ SetWebsocket([Websocket EXCEPT !.timer = FALSE, !.ws = "socket",
                                      !.readyState = "CONNECTING"])

\* cleanup() of the canvas store: websocket.leaveCanvas(), websocket.disconnect()
Cleanup ==
    /\ ~Websocket.disconnected
    /\ SetWebsocket(
           [Websocket EXCEPT
               !.canvasId = NoCanvas,
               !.hasJoinedCanvas = IF Websocket.canvasId # NoCanvas THEN FALSE ELSE @,
               !.readyState = IF Websocket.ws # "null" /\ @ \in {"CONNECTING", "OPEN"}
                              THEN "CLOSING" ELSE @,
               !.ws = "null",
               !.isConnected = FALSE,
               !.disconnected = TRUE])

ConnInit ==
    /\ StoreInit
    /\ NoSockets
    /\ conflictResolver = EmptyObj
    /\ localShapes = EmptyObj
    /\ handled = <<>>
    /\ args = EmptyObj
    /\ result = EmptyObj
    /\ pendingEvents = <<>>
    /\ syncService = [websocket |-> NewWebSocketService]
    /\ tasks = <<>>

ConnNext ==
    \/ OnOpen
    \/ JoinCanvas
    \/ OnClose
    \/ ReconnectTimer
    \/ Cleanup

SpecConn == ConnInit /\ [][ConnNext]_vars

\* a WebSocket is created
Connects == Websocket'.readyState = "CONNECTING" /\ Websocket.readyState # "CONNECTING"

\* after disconnect() no WebSocket is created and no reconnect attempt is started
QuietAfterDisconnect ==
    Websocket.disconnected
    => /\ ~Connects
       /\ Websocket'.timer => Websocket.timer
       /\ Websocket'.reconnectAttempts <= Websocket.reconnectAttempts

\* the attempts are counted up to the limit; at the limit a close emits
\* 'reconnect-failed' and sets no timer; an open resets the counter
AttemptsBounded ==
    /\ Websocket'.reconnectAttempts <= maxReconnectAttempts
    /\ (Websocket'.timer /\ ~Websocket.timer)
       => Websocket'.reconnectAttempts = Websocket.reconnectAttempts + 1
    /\ (Websocket.reconnectAttempts = maxReconnectAttempts
          /\ Websocket'.readyState = "CLOSED" /\ Websocket.readyState # "CLOSED")
       => ~Websocket'.timer /\ Websocket'.emitted = "reconnect-failed"
    /\ (Websocket'.readyState = "OPEN" /\ Websocket.readyState # "OPEN")
       => Websocket'.reconnectAttempts = 0

\* C38: after disconnect() the client opens no new connection (the close event of
\* the socket it closed starts no reconnect attempt); consecutive failed attempts are
\* bounded by maxReconnectAttempts, then 'reconnect-failed' is emitted and no attempt
\* is scheduled; the counter is reset to 0 on every successful open.
C38_NoReconnectAfterDisconnect == [][QuietAfterDisconnect /\ AttemptsBounded]_vars

\* the bound alone
ReconnectBounded == [][AttemptsBounded]_vars

-----------------------------------------------------------------------------
(* BATCH_SYNC with several events of one kind for one shape: both sockets have    *)
(* joined C1 and the batches are handled one at a time.                           *)

EMove2 == Ev("L14", "A", "SHAPE_MOVED", "S1", [position |-> [x |-> 5, y |-> 6]])

IdBatches == {<<ECreate1, EMove, EMove2>>, <<ECreate2, EDragMove, EMove>>,
              <<EEditColor, EEditWidth>>}

IdNext ==
    \/ Quiet /\ \E w \in Sockets, evs \in IdBatches, v \in LastKnownVersions :
                   ReceiveBatchSync(w, evs, v)
    \/ \E h \in DOMAIN handlers :
          \/ BatchMissed(h)
          \/ BatchBegin(h)
          \/ BatchState(h)
          \/ BatchRespond(h)
    \/ WsTxnStep

SpecIds == SyncInit /\ [][IdNext]_vars

\* the storedEvents of the BATCH_SYNC_RESULT carry, in order, the localEventIds of
\* the storable events of the batch
StoredEventsCarryIds ==
    (SyncEnded /\ SyncReply.type = "BATCH_SYNC_RESULT" /\ SyncReply.success) =>
        LET sent == StorableOf(LastSync.msg.events)
        IN  /\ Len(SyncReply.storedEvents) = Len(sent)
            /\ \A j \in DOMAIN SyncReply.storedEvents :
                  SyncReply.storedEvents[j].localEventId = sent[j].localEventId

\* C39: every entry of storedEvents in BATCH_SYNC_RESULT carries the localEventId of
\* the submitted event it was stored for, distinct events mapping to distinct ids,
\* also when the batch holds several events with one shapeId and one eventType.
C39_StoredEventIds ==
    /\ StoredEventsCarryIds
    /\ (SyncEnded /\ SyncReply.type = "BATCH_SYNC_RESULT" /\ SyncReply.success) =>
          \A i, j \in DOMAIN SyncReply.storedEvents :
              i # j => SyncReply.storedEvents[i].localEventId
                          # SyncReply.storedEvents[j].localEventId

\* the same for the batches whose events differ in shape or kind
StoredEventIdsOfDistinctKinds ==
    (SyncEnded /\ \A i, j \in DOMAIN LastSync.msg.events :
        i # j => \/ LastSync.msg.events[i].shapeId # LastSync.msg.events[j].shapeId
                 \/ LastSync.msg.events[i].eventType # LastSync.msg.events[j].eventType)
    => StoredEventsCarryIds

-----------------------------------------------------------------------------
(* JOIN_CANVAS when a query of the store fails: the promise of getOrCreateCanvas   *)
(* or of getCanvasState rejects (the pool has lost the database) and the catch     *)
(* block of handleJoinCanvas answers.  Messages are handled one at a time.         *)

JoinError(canvasId) ==
    [type |-> "JOIN_ERROR", canvasId |-> canvasId, error |-> "Connection terminated"]

\* getOrCreateCanvas rejects: nothing was attached, JOIN_ERROR
JoinCanvasFails(h) ==
    /\ handlers[h].pc = "attach"
    /\ SetNode(send(Node, handlers[h].ws, JoinError(handlers[h].msg.canvasId)))
    /\ handlers' = [handlers EXCEPT ![h].pc = "done",
                                    ![h].response = JoinError(handlers[h].msg.canvasId)]
    /\ UNCHANGED <<clientVars, canvases, events, shapes, now, nextId, calls, open, connections>>

\* getCanvasState rejects, after connInfo.canvasId was set and the socket was added
\* to the room: JOIN_ERROR
JoinStateFails(h) ==
    /\ handlers[h].pc = "respond"
    /\ handlers[h].msg.type = "JOIN_CANVAS"
    /\ SetNode(send(Node, handlers[h].ws, JoinError(handlers[h].msg.canvasId)))
    /\ handlers' = [handlers EXCEPT ![h].pc = "done",
                                    ![h].response = JoinError(handlers[h].msg.canvasId)]
    /\ UNCHANGED <<clientVars, canvases, events, shapes, now, nextId, calls, open, connections>>

JoinNext ==
    \/ Quiet /\ \E w \in Sockets, c \in Canvases : ReceiveJoinCanvas(w, c)
    \/ Quiet /\ \E w \in Sockets : ReceiveLeaveCanvas(w)
    \/ Quiet /\ \E w \in Sockets, ev \in {ECreate1, EMove} : ReceiveShapeEvent(w, ev)
    \/ \E h \in DOMAIN handlers :
          \/ JoinAttach(h)
          \/ JoinRespond(h)
          \/ JoinCanvasFails(h)
          \/ JoinStateFails(h)
          \/ ShapeEventRespond(h)
    \/ WsTxnStep

SpecJoin == WsInit /\ [][JoinNext]_vars

\* the sockets whose last message handled was a JOIN_CANVAS answered with JOIN_ERROR
FailedToJoin ==
    {w \in Sockets :
        \E h \in DOMAIN handlers :
            /\ handlers[h].ws = w
            /\ handlers[h].pc = "done"
            /\ handlers[h].response # EmptyObj
            /\ handlers[h].response.type = "JOIN_ERROR"
            /\ \A g \in DOMAIN handlers : handlers[g].ws = w => g <= h}

\* after JOIN_ERROR the session is in no room and its connInfo.canvasId is null
UnattachedAfterJoinError ==
    \A w \in FailedToJoin : RoomsOf(w) = {} /\ connInfo[w].canvasId = NoCanvas

\* the step that sends JOIN_ERROR broadcasts no USER_JOINED, and a session whose
\* join failed is sent no broadcast of a canvas
NoBroadcastAfterJoinError ==
    /\ (\E w \in Sockets : \E n \in Arriving(w) : inbox'[w][n].type = "JOIN_ERROR")
       => \A w \in Sockets : \A n \in Arriving(w) : inbox'[w][n].type # "USER_JOINED"
    /\ \A w \in FailedToJoin : \A n \in Arriving(w) :
          inbox'[w][n].type \notin {"SHAPE_EVENT", "USER_JOINED", "USER_LEFT"}

\* C40: whenever the server replies JOIN_ERROR to a JOIN_CANVAS, the session is
\* afterwards a member of no room, its connInfo.canvasId is null, no USER_JOINED was
\* broadcast for it and it receives no broadcasts of that canvas.
C40_FailedJoinUnattached == []UnattachedAfterJoinError /\ [][NoBroadcastAfterJoinError]_vars

====
